---- MODULE Spec2Model ----
(***************************************************************************)
(* State-machine model of general_pipeline: PipelineExecutor.run() and the *)
(* operations it calls (validate_dependencies, clone_operator_code,        *)
(* setup_virtual_env, the install_env variants, execute_operator), with    *)
(* the operator process and wall-clock time as the environment.            *)
(*                                                                         *)
(* Time is in seconds.  elapsed is time.time() - start_time of the         *)
(* operator being executed.  Orchestrator steps that do not sleep or block *)
(* take no time; time.sleep(n) adds n to elapsed; a blocked readline()     *)
(* lets time pass one second at a time (Tick).                             *)
(***************************************************************************)
EXTENDS Integers, Sequences, FiniteSets, TLC

(* ------------------------------ bounds --------------------------------- *)
MaxOps == 2
MaxDeps == 2
MaxNodes == 2
MaxLines == 2
MaxElapsed == 13
MaxCalls == 3
MaxRuns == 2

(* ------------------------- program constants --------------------------- *)
GracePeriod == 5
MonitorInterval == 5
TimeoutCode == 4
LogicErrorCode == 3
ConfigErrorCode == 1
EnvErrorCode == 5
DefaultRunnerCount == 1
CliErrorExit == 1

OpIdSeq == <<"a", "b", "c", "d">>
OpIdsUpTo(n) == {OpIdSeq[k] : k \in 1..n}
MissingIds == {"x", "y"}
EnvTypes == {"UVVirtualEnvConfig", "PixiVirtualEnvConfig", "CondaVirtualEnvConfig"}
EnvNames == {"e1", "e2"}
Timeouts == {2, 7}
DefaultTimeout == CHOOSE t \in Timeouts : \A u \in Timeouts : t <= u
ExitCodes == {0, 2, 4}
SigTermCode == 0 - 15
SigKillCode == 0 - 9

SeqUpTo(S, n) == UNION {[1..k -> S] : k \in 0..n}

VARIABLES
    config,         \* PipelineConfig: [operators, nodes]
    code_path,      \* operator index -> "" (None) or the cloned path
    env_root_path,  \* operator index -> TRUE when env_config.env_root_path is injected
    code_injected,  \* operator index -> TRUE when env_config.operator_code_path is set
    env_cache,      \* PipelineExecutor.env_cache : env_key -> env path
    disk_code,      \* operator code directories that exist
    disk_envs,      \* environment directories (env_root/env_name) that exist
    pc,             \* position of run()
    idx,            \* loop index of the clone / setup loops
    node_i,         \* index of the node being executed
    op_j,           \* index in node.operator_ids
    ret,            \* value returned by run(), NoValue until it returns
    raised,         \* the exception run() caught, [type, operator, dep]
    install_calls,  \* env_key -> number of install_env() invocations
    subprocs,       \* number of install subprocesses run
    downloads,      \* number of object-storage downloads started
    install_failed, \* TRUE once an install subprocess exited nonzero
    broken_envs,    \* environment directories an install_env created and left incomplete
    clone_calls,    \* number of git clone subprocesses run
    api_calls,      \* number of direct method calls made on the objects
    called,         \* the last direct call: [method, op]
    provisioned,    \* env keys for which setup_virtual_env returned normally
    spawned,        \* sequence of [node, op] for which Popen was called
    results,        \* sequence of [node, op, code]: returns of execute_operator
    epc,            \* position inside execute_operator
    cur,            \* index of the operator being executed (0: none)
    elapsed,        \* time.time() - start_time
    proc,           \* the operator process: [alive, code]
    pipe,           \* lines written by the process and not yet read
    written,        \* lines written by the process so far
    sigterm_at,     \* elapsed when SIGTERM was sent, NoValue if not sent
    kill_at,        \* elapsed when kill() was sent, NoValue if not sent
    timed_out,      \* TRUE when the timeout branch was taken
    os_environ,     \* os.environ of the orchestrator process: name -> value
    penv,           \* env= handed to the last subprocess.Popen
    logged,         \* output lines handed to logger.info, by line number
    code_assigns,   \* operator index -> number of assignments to code_path
    runs,           \* number of run() calls made on the executor
    cli,            \* the command-line invocation: [node, operator, skip_init, exit]
    registry,       \* _operator_registry: operator_id -> class
    reg_log,        \* the registrations that succeeded, in order: <<id, class>>
    reg_ret,        \* the last registry call: [id, value], value what it returned
    fs,             \* the operator path roots that exist as directories
    nested,         \* TRUE when the output root lies under the workspace root
    instances,      \* SingletonMeta._instances: (class, operator id) -> object
    built,          \* the last construction: [ran, warned], ran when __init__ ran
    inst,           \* one install_env() call: its inputs, position and steps run
    stream          \* one run_cmd_stream() call: its timeout, position, process

vars == <<config, code_path, env_root_path, code_injected, env_cache, disk_code,
          disk_envs, pc, idx, node_i, op_j, ret, raised, install_calls, subprocs,
          downloads, install_failed, broken_envs, clone_calls, api_calls, called, provisioned,
          spawned,
          results, epc, cur, elapsed, proc,
          pipe, written, sigterm_at, kill_at, timed_out,
          os_environ, penv, logged, code_assigns, runs, cli,
          registry, reg_log, reg_ret, fs, nested, instances, built, inst, stream>>

NoValue == 0 - 1
NoError == [type |-> "none", operator |-> "", dep |-> ""]
NoProc == [alive |-> FALSE, code |-> NoValue]
NoCall == [method |-> "", op |-> 0]
NoEnv == <<>>
NoCli == [node |-> "", operator |-> "", skip_init |-> FALSE, exit |-> NoValue]

\* the state of the operator library, which the orchestrator never touches
regVars == <<registry, reg_log, reg_ret>>
pathVars == <<fs, nested, instances, built>>
libVars == <<regVars, pathVars, inst, stream>>

\* a BasicRunner object: its class, the attributes __init__ assigned, and
\* obj, its identity (the n-th object created)
Instance(cls, id, args, n) ==
    [cls |-> cls, operator_id |-> id, pipeline_id |-> args.pipeline_id,
     node_id |-> args.node_id, roots |-> args.roots, obj |-> n]

NoArgs == [pipeline_id |-> "", node_id |-> "", roots |-> ""]

NoInstance == Instance("", "", NoArgs, 0)

\* a construction: whether __init__ ran, what _init_paths warned about, the
\* class and arguments of the call, and the object returned
Construction(cls, id, args, self) ==
    [ran |-> FALSE, warned |-> {}, cls |-> cls, operator_id |-> id,
     args |-> args, self |-> self]

NotBuilt == Construction("", "", NoArgs, NoInstance)

\* an install_env() call on a variant, before its first statement: whether
\* operator_code_path and s3_client are set, whether the manifest file and
\* the unpacked bin/conda exist, need_conda_update, and the steps that fail
\* when run
InstallCall(ty, has_code, has_client, manifest, need_update, conda_bin, fails) ==
    [ty |-> ty, has_code |-> has_code, has_client |-> has_client,
     manifest |-> manifest, need_update |-> need_update, conda_bin |-> conda_bin,
     fails |-> fails, pc |-> "start", steps |-> <<>>, err |-> "", warned |-> FALSE]

NoInstall == InstallCall("", FALSE, FALSE, FALSE, FALSE, FALSE, {})

\* a run_cmd_stream() call before subprocess.Popen: timeout 0 stands for None
StreamCall(timeout) ==
    [timeout |-> timeout, pc |-> "start", elapsed |-> 0, proc |-> NoProc,
     pipe |-> 0, written |-> 0, out |-> 0, timed_out |-> FALSE,
     sigterm_at |-> NoValue, kill_at |-> NoValue, failed |-> FALSE, ret |-> 0]

NoStream == [StreamCall(0) EXCEPT !.pc = "none"]

LibInit ==
    /\ registry = <<>>
    /\ reg_log = <<>>
    /\ reg_ret = [id |-> "", value |-> "None"]
    /\ fs = {}
    /\ nested = FALSE
    /\ instances = <<>>
    /\ built = NotBuilt
    /\ inst = NoInstall
    /\ stream = NoStream


(* ----------------------------- data model ------------------------------ *)
Operator(id, deps, ty, name, t) ==
    [operator_id |-> id, upstream_dependencies |-> deps,
     env_type |-> ty, env_name |-> name, timeout |-> t,
     extra_env_vars |-> NoEnv]

Node(id, ops) ==
    [node_id |-> id, operator_ids |-> ops, runner_count |-> DefaultRunnerCount]

NodeIdSeq == <<"n1", "n2", "n3", "n4">>

DefaultOp(k) == Operator(OpIdSeq[k], <<>>, "UVVirtualEnvConfig", OpIdSeq[k], DefaultTimeout)

DefaultOps(n) == [k \in 1..n |-> DefaultOp(k)]

DefaultNodes(ops) ==
    << Node("n1", [k \in 1..Len(ops) |-> ops[k].operator_id]) >>

\* f"{env_type}_{env_name}": the three class names make the string injective
\* in the pair, so the key is the pair
EnvKey(op) == <<op.env_type, op.env_name>>

EnvKeys == EnvTypes \X (EnvNames \cup OpIdsUpTo(Len(OpIdSeq)))

\* env_root_path / env_name: the root is the same for every operator
FullEnvPath(op) == op.env_name

\* work_dir / "operators" / operator_id
CodePathOf(op) == op.operator_id

(* --------------------------- configurations ---------------------------- *)
\* Dependency family: every operator declares up to MaxDeps distinct upstream
\* ids, drawn from a configured id and two ids no operator has.
DepIds == {OpIdSeq[1]} \cup MissingIds

DepLists == {d \in SeqUpTo(DepIds, MaxDeps) :
                \A i, j \in 1..Len(d) : i # j => d[i] # d[j]}

DepConfigs ==
    UNION { { [operators |-> [k \in 1..n |->
                  [DefaultOp(k) EXCEPT !.upstream_dependencies = d[k]]],
               nodes |-> DefaultNodes(DefaultOps(n))]
              : d \in [1..n -> DepLists] }
            : n \in 1..MaxOps }

\* Node family: up to MaxNodes nodes, each listing operators "a" and "b" in
\* any order, with repetition, or none, or an id no operator has.
NodeOpLists == {<<>>, <<"a">>, <<"a", "b">>, <<"b", "a">>, <<"a", "a">>, <<"a", "x">>}

NodeConfigs ==
    UNION { { [operators |-> DefaultOps(MaxOps),
               nodes |-> [k \in 1..n |-> Node(NodeIdSeq[k], l[k])]]
              : l \in [1..n -> NodeOpLists] }
            : n \in 0..MaxNodes }

\* Environment family: every operator has one of the three environment
\* variants under one of two environment names.
EnvConfigs ==
    UNION { { [operators |-> [k \in 1..n |->
                  [DefaultOp(k) EXCEPT !.env_type = e[k][1], !.env_name = e[k][2]]],
               nodes |-> DefaultNodes(DefaultOps(n))]
              : e \in [1..n -> EnvTypes \X EnvNames] }
            : n \in 1..MaxOps }

\* Timeout family: one operator, each timeout.
TimeConfigs ==
    { [operators |-> << [DefaultOp(1) EXCEPT !.timeout = t] >>,
       nodes |-> DefaultNodes(DefaultOps(1))] : t \in Timeouts }

\* Order family: two operators whose dependencies point at each other, at
\* themselves or nowhere, listed in one node in either order.
OrderDepLists == {<<>>, <<"a">>, <<"b">>}

OrderConfigs ==
    { [operators |-> [k \in 1..2 |->
          [DefaultOp(k) EXCEPT !.upstream_dependencies = d[k]]],
       nodes |-> << Node("n1", l) >>]
      : d \in [1..2 -> OrderDepLists], l \in {<<"a", "b">>, <<"b", "a">>} }

\* Runner family: one node of two operators declaring more than one runner.
RunnerCounts == {2, 3}

RunnerConfigs ==
    { [operators |-> DefaultOps(2),
       nodes |-> << [Node("n1", <<"a", "b">>) EXCEPT !.runner_count = r] >>]
      : r \in RunnerCounts }

\* Variable family: one operator whose extra_env_vars give a value to any of
\* an identity variable, an activation variable, a path-root variable and a
\* variable nothing else sets.
ExtraKeys == {"NODE_ID", "PATH", "INPUT_ROOT", "FOO"}

ExtraEnvs == UNION {[K -> {<<"extra">>}] : K \in SUBSET ExtraKeys}

ExtraConfigs ==
    { [operators |-> << [DefaultOp(1) EXCEPT !.extra_env_vars = e] >>,
       nodes |-> DefaultNodes(DefaultOps(1))] : e \in ExtraEnvs }

\* os.environ of the orchestrator: empty, or holding some of the names above
Environs ==
    { NoEnv,
      [PATH |-> <<"/bin">>, FOO |-> <<"base">>, NODE_ID |-> <<"base">>],
      [INPUT_ROOT |-> <<"base">>, OUTPUT_ROOT |-> <<"base">>,
       WORKSPACE_ROOT |-> <<"base">>] }

\* Duplicate family: two operators configured under the same operator_id.
DupConfigs ==
    { [operators |-> << DefaultOp(1), [DefaultOp(2) EXCEPT !.operator_id = OpIdSeq[1]] >>,
       nodes |-> DefaultNodes(DefaultOps(1))] }

Ops == config.operators
NOps == Len(config.operators)
Nodes == config.nodes

(* ------------------------ PipelineExecutor.__init__ -------------------- *)
\* operator_map[id]: the loop overwrites, so the last operator with the id wins
RECURSIVE OperatorMapFrom(_, _, _)
OperatorMapFrom(ops, k, id) ==
    IF k = 0 THEN 0
    ELSE IF ops[k].operator_id = id THEN k
    ELSE OperatorMapFrom(ops, k - 1, id)

OperatorMap(id) == OperatorMapFrom(Ops, NOps, id)

\* The states a run can start in: a configuration and what earlier runs left
\* on disk.
Start(cfgs, codes, envs) ==
    {[config |-> c, disk_code |-> dc, disk_envs |-> de, environ |-> NoEnv] :
        c \in cfgs, dc \in codes, de \in envs}

\* the same, under each os.environ
StartIn(cfgs, environs) ==
    {[st EXCEPT !.environ = e] : st \in Start(cfgs, {{}}, {{}}), e \in environs}

Starts ==
    Start(DepConfigs, {{}}, {{}})
    \cup Start(NodeConfigs, {{}}, {{}})
    \cup Start(EnvConfigs, {{}}, SUBSET EnvNames)
    \cup Start(TimeConfigs, SUBSET {OpIdSeq[1]}, SUBSET {OpIdSeq[1]})
    \cup Start(OrderConfigs, {{}}, {{}})
    \cup Start(RunnerConfigs, {{}}, {{}})
    \cup StartIn(ExtraConfigs, Environs)
    \cup Start(DupConfigs, {{}}, {{}})

Init ==
  \E start \in Starts :
    /\ config = start.config
    /\ code_path = [k \in 1..NOps |-> ""]
    /\ env_root_path = [k \in 1..NOps |-> FALSE]
    /\ code_injected = [k \in 1..NOps |-> FALSE]
    /\ env_cache = <<>>
    /\ disk_code = start.disk_code
    /\ disk_envs = start.disk_envs
    /\ pc = "validate"
    /\ idx = 1
    /\ node_i = 1
    /\ op_j = 1
    /\ ret = NoValue
    /\ raised = NoError
    /\ install_calls = [k \in EnvKeys |-> 0]
    /\ subprocs = 0
    /\ downloads = 0
    /\ install_failed = FALSE
    /\ broken_envs = {}
    /\ clone_calls = 0
    /\ api_calls = 0
    /\ called = NoCall
    /\ provisioned = {}
    /\ spawned = <<>>
    /\ results = <<>>
    /\ epc = "idle"
    /\ cur = 0
    /\ elapsed = 0
    /\ proc = NoProc
    /\ pipe = 0
    /\ written = 0
    /\ sigterm_at = NoValue
    /\ kill_at = NoValue
    /\ timed_out = FALSE
    /\ os_environ = start.environ
    /\ penv = NoEnv
    /\ logged = <<>>
    /\ code_assigns = [k \in 1..NOps |-> 0]
    /\ runs = 1
    /\ cli = NoCli
    /\ LibInit

runVars == <<pc, idx, node_i, op_j, ret, raised>>
provVars == <<code_path, env_root_path, code_injected, env_cache, disk_code,
              disk_envs, install_calls, subprocs, downloads, install_failed, broken_envs,
              clone_calls, code_assigns, api_calls, called, provisioned>>
execVars == <<spawned, results, epc, cur, elapsed, proc, pipe, written,
              sigterm_at, kill_at, timed_out, penv, logged>>

(* --------------------------- run(): except ----------------------------- *)
\* except Exception as e: ... return 3
RunExceptCode(err) == LogicErrorCode

Raise(err) ==
    /\ raised' = err
    /\ ret' = RunExceptCode(err)
    /\ pc' = "done"

Error(ty) == [type |-> ty, operator |-> "", dep |-> ""]

(* ------------------------ validate_dependencies ------------------------ *)
RECURSIVE ScanDeps(_, _, _)
ScanDeps(deps, j, ids) ==
    IF j > Len(deps) THEN 0
    ELSE IF deps[j] \notin ids THEN j
    ELSE ScanDeps(deps, j + 1, ids)

RECURSIVE ScanOperators(_, _, _)
ScanOperators(ops, i, ids) ==
    IF i > Len(ops) THEN <<0, 0>>
    ELSE LET j == ScanDeps(ops[i].upstream_dependencies, 1, ids)
         IN  IF j # 0 THEN <<i, j>> ELSE ScanOperators(ops, i + 1, ids)

MapIds == {Ops[k].operator_id : k \in 1..NOps}

FirstMissing_Last ==
    LET M == {p \in (1..NOps) \X (1..MaxDeps + 1) :
                /\ p[2] <= Len(Ops[p[1]].upstream_dependencies)
                /\ Ops[p[1]].upstream_dependencies[p[2]] \notin MapIds}
    IN  IF M = {} THEN <<0, 0>>
        ELSE CHOOSE p \in M : \A q \in M :
                q[1] < p[1] \/ (q[1] = p[1] /\ q[2] <= p[2])

\* the first pair whose upstream id is absent or is the operator's own id
FirstMissing_SelfDep ==
    LET M == {p \in (1..NOps) \X (1..MaxDeps + 1) :
                /\ p[2] <= Len(Ops[p[1]].upstream_dependencies)
                /\ \/ Ops[p[1]].upstream_dependencies[p[2]] \notin MapIds
                   \/ Ops[p[1]].upstream_dependencies[p[2]] = Ops[p[1]].operator_id}
    IN  IF M = {} THEN <<0, 0>>
        ELSE CHOOSE p \in M : \A q \in M :
                p[1] < q[1] \/ (p[1] = q[1] /\ p[2] <= q[2])

FirstMissing == ScanOperators(Ops, 1, MapIds)

Validate ==
    /\ pc = "validate"
    /\ LET m == FirstMissing IN
       IF m # <<0, 0>>
       THEN /\ Raise([type |-> "DependencyMissingError",
                      operator |-> Ops[m[1]].operator_id,
                      dep |-> Ops[m[1]].upstream_dependencies[m[2]]])
            /\ UNCHANGED <<idx, node_i, op_j>>
       ELSE /\ pc' = "clone"
            /\ idx' = 1
            /\ UNCHANGED <<node_i, op_j, ret, raised>>
    /\ UNCHANGED <<config, libVars, os_environ, runs, cli, provVars, execVars>>


(* ------------------------- clone_operator_code ------------------------- *)
\* The outcomes of clone_operator_code(op): the path it returns, or "" when
\* git clone exits nonzero (check=True raises CalledProcessError).
CloneOutcomes(op) ==
    IF CodePathOf(op) \in disk_code
    THEN {CodePathOf(op)}
    ELSE {CodePathOf(op), ""}

Clone ==
    /\ pc = "clone"
    /\ idx <= NOps
    /\ \E path \in CloneOutcomes(Ops[idx]) :
          IF path = ""
          THEN /\ Raise(Error("CalledProcessError"))
               /\ UNCHANGED <<idx, code_path, code_assigns, disk_code>>
          ELSE /\ disk_code' = disk_code \cup {path}
               /\ code_path' = [code_path EXCEPT ![idx] = path]
               /\ code_assigns' = [code_assigns EXCEPT ![idx] = @ + 1]
               /\ idx' = idx + 1
               /\ UNCHANGED <<pc, ret, raised>>
    /\ clone_calls' = IF CodePathOf(Ops[idx]) \in disk_code
                      THEN clone_calls ELSE clone_calls + 1
    /\ UNCHANGED <<config, libVars, os_environ, runs, cli, node_i, op_j, env_root_path, code_injected, env_cache,
                   disk_envs, install_calls, subprocs, downloads, install_failed, broken_envs,
                   api_calls, called, provisioned, execVars>>

CloneDone ==
    /\ pc = "clone"
    /\ idx > NOps
    /\ pc' = "setup"
    /\ idx' = 1
    /\ UNCHANGED <<config, libVars, os_environ, runs, cli, node_i, op_j, ret, raised, provVars, execVars>>

(* ------------------------------ install_env ---------------------------- *)
\* One outcome of install_env(): err is the exception raised ("" when it
\* returns), created whether env_root/env_name exists afterwards, nsub the
\* install subprocesses run, ndl the downloads started, failed whether a
\* subprocess exited nonzero.
Outcome(err, created, nsub, ndl, failed) ==
    [err |-> err, created |-> created, nsub |-> nsub, ndl |-> ndl, failed |-> failed]

\* UVVirtualEnvConfig.install_env: uv venv, then pip install -e . when the
\* operator code path is injected
InstallUV(has_code) ==
    {Outcome("EnvInstallError", FALSE, 1, 0, TRUE)}
    \cup (IF has_code
          THEN {Outcome("EnvInstallError", TRUE, 2, 0, TRUE),
                Outcome("", TRUE, 2, 0, FALSE)}
          ELSE {Outcome("", TRUE, 1, 0, FALSE)})

\* PixiVirtualEnvConfig.install_env: the manifest must exist under the code
\* root; pixi install creates its environment beside the manifest, not at
\* env_root/env_name
InstallPixi(has_code) ==
    IF ~has_code
    THEN {Outcome("EnvInstallError", FALSE, 0, 0, FALSE)}
    ELSE {Outcome("FileNotFoundError", FALSE, 0, 0, FALSE),
          Outcome("EnvInstallError", FALSE, 1, 0, TRUE),
          Outcome("", FALSE, 1, 0, FALSE)}

\* CondaVirtualEnvConfig.install_env: download, zstd -d, unlink, optional
\* conda env update (its exit status only logs)
InstallConda(has_client) ==
    IF ~has_client
    THEN {Outcome("", FALSE, 0, 0, FALSE)}
    ELSE {Outcome("EnvInstallError", FALSE, 0, 1, FALSE),
          Outcome("EnvInstallError", FALSE, 1, 1, TRUE),
          Outcome("", TRUE, 1, 1, FALSE),
          Outcome("", TRUE, 2, 1, FALSE),
          Outcome("", TRUE, 2, 1, TRUE)}

InstallEnv(ty, has_code, has_client) ==
    CASE ty = "UVVirtualEnvConfig" -> InstallUV(has_code)
      [] ty = "PixiVirtualEnvConfig" -> InstallPixi(has_code)
      [] ty = "CondaVirtualEnvConfig" -> InstallConda(has_client)

\* what a call of op.env_config.install_env() with outcome o leaves behind
ApplyInstall(op, o) ==
    /\ install_calls' = [install_calls EXCEPT ![EnvKey(op)] = @ + 1]
    /\ subprocs' = subprocs + o.nsub
    /\ downloads' = downloads + o.ndl
    /\ install_failed' = (install_failed \/ o.failed)
    /\ broken_envs' = IF ~o.created THEN broken_envs
                      ELSE IF o.err # "" THEN broken_envs \cup {FullEnvPath(op)}
                      ELSE broken_envs \ {FullEnvPath(op)}
    /\ disk_envs' = IF o.created THEN disk_envs \cup {FullEnvPath(op)} ELSE disk_envs

(* --------------------------- setup_virtual_env ------------------------- *)
HasCodePathField(ty) == ty \in {"UVVirtualEnvConfig", "PixiVirtualEnvConfig"}
HasS3ClientField(ty) == ty = "CondaVirtualEnvConfig"

\* if env_key in self.env_cache: return
CacheHit_Never(key) == FALSE

CacheHit(key) == key \in DOMAIN env_cache

\* if not env_full_path.exists(): install_env()
NeedsInstall_Always(path) == TRUE

NeedsInstall(path) == path \notin disk_envs

\* self.env_cache[env_key] = env_full_path
CacheWrite_Evict(cache, key, path) == (key :> path)

CacheWrite(cache, key, path) == (key :> path) @@ cache

\* PipelineConfig declares no s3_config field, so reading self.config.s3_config
\* raises AttributeError; the read happens only when hasattr(env_config,
\* "s3_client") holds
S3ConfigReadRaises(ty) == HasS3ClientField(ty)

\* setup_virtual_env(Ops[k]); err is the exception it raises, "" when it
\* returns normally.
SetupVirtualEnv(k, err) ==
    LET op == Ops[k]
        key == EnvKey(op)
        path == FullEnvPath(op)
        inj == HasCodePathField(op.env_type) /\ code_path[k] # ""
    IN
    IF CacheHit(key)
    THEN /\ err = ""
         /\ provisioned' = provisioned \cup {key}
         /\ UNCHANGED <<env_root_path, code_injected, env_cache, disk_envs,
                        install_calls, subprocs, downloads, install_failed, broken_envs>>
    ELSE
      /\ env_root_path' = [env_root_path EXCEPT ![k] = TRUE]
      /\ code_injected' = [code_injected EXCEPT ![k] = inj]
      /\ IF S3ConfigReadRaises(op.env_type)
         THEN /\ err = "AttributeError"
              /\ UNCHANGED <<env_cache, disk_envs, install_calls, subprocs,
                             downloads, install_failed, broken_envs, provisioned>>
         ELSE IF ~NeedsInstall(path)
         THEN /\ err = ""
              /\ env_cache' = CacheWrite(env_cache, key, path)
              /\ provisioned' = provisioned \cup {key}
              /\ UNCHANGED <<disk_envs, install_calls, subprocs, downloads,
                             install_failed, broken_envs>>
         ELSE \E o \in InstallEnv(op.env_type, inj, FALSE) :
              /\ err = o.err
              /\ ApplyInstall(op, o)
              /\ IF o.err # ""
                 THEN UNCHANGED <<env_cache, provisioned>>
                 ELSE /\ env_cache' = CacheWrite(env_cache, key, path)
                      /\ provisioned' = provisioned \cup {key}

ErrorTypes == {"", "AttributeError", "EnvInstallError", "FileNotFoundError"}

\* run(), step 3: for operator in self.config.operators: setup_virtual_env
Setup ==
    /\ pc = "setup"
    /\ idx <= NOps
    /\ \E err \in ErrorTypes :
          /\ SetupVirtualEnv(idx, err)
          /\ IF err = ""
             THEN /\ idx' = idx + 1
                  /\ UNCHANGED <<pc, ret, raised>>
             ELSE /\ Raise(Error(err))
                  /\ UNCHANGED idx
    /\ UNCHANGED <<config, libVars, os_environ, runs, cli, node_i, op_j, code_path, disk_code, clone_calls,
                   code_assigns, api_calls, called, execVars>>

\* the setup loop has visited every operator of config.operators
SetupLoopOver_First == idx > 1

SetupLoopOver == idx > NOps

SetupDone ==
    /\ pc = "setup"
    /\ SetupLoopOver
    /\ pc' = "exec"
    /\ node_i' = 1
    /\ op_j' = 1
    /\ UNCHANGED <<config, libVars, os_environ, runs, cli, idx, ret, raised, provVars, execVars>>

(* --------------------------- run(): step 4 ----------------------------- *)
CurNode == Nodes[node_i]
\* for operator_id in node.operator_ids
CurOpId_Reverse == CurNode.operator_ids[Len(CurNode.operator_ids) + 1 - op_j]

CurOpId == CurNode.operator_ids[op_j]

\* the loop body is entered with no execute_operator call in progress
AtOperator_Async ==
    /\ pc = "exec"
    /\ node_i <= Len(Nodes)
    /\ op_j <= Len(CurNode.operator_ids)

AtOperator ==
    /\ pc = "exec"
    /\ epc = "idle"
    /\ node_i <= Len(Nodes)
    /\ op_j <= Len(CurNode.operator_ids)

\* for node in self.config.nodes: the inner loop is exhausted
NodeDone ==
    /\ pc = "exec"
    /\ epc = "idle"
    /\ node_i <= Len(Nodes)
    /\ op_j > Len(CurNode.operator_ids)
    /\ node_i' = node_i + 1
    /\ op_j' = 1
    /\ UNCHANGED <<config, libVars, os_environ, runs, cli, pc, idx, ret, raised, provVars, execVars>>

\* the outer loop is exhausted: return 0
RunDone ==
    /\ pc = "exec"
    /\ epc = "idle"
    /\ node_i > Len(Nodes)
    /\ ret' = 0
    /\ pc' = "done"
    /\ UNCHANGED <<config, libVars, os_environ, runs, cli, idx, node_i, op_j, raised, provVars, execVars>>

\* where run() goes when operator_map has no entry for the id: return 1
AfterMissing_Continue == "exec"

AfterMissing == "done"

\* operator = self.operator_map.get(operator_id); if not operator: return 1
OperatorMissing ==
    /\ AtOperator
    /\ OperatorMap(CurOpId) = 0
    /\ ret' = ConfigErrorCode
    /\ pc' = AfterMissing
    /\ UNCHANGED <<config, libVars, os_environ, runs, cli, idx, node_i, op_j, raised, provVars, execVars>>

\* What run() does with the value execute_operator returned:
\* if exit_code != 0: return exit_code; otherwise the next operator.
AbortsOn_Never(code) == FALSE

AbortsOn(code) == code # 0

PropagatedCode_Logic(code) == LogicErrorCode

PropagatedCode(code) == code

\* return exit_code leaves run(): the operator is not tried again
AfterFailure_Retry == "exec"

AfterFailure == "done"

ReturnFromExecute(code) ==
    /\ results' = Append(results, [node |-> CurNode.node_id, op |-> CurOpId, code |-> code])
    /\ epc' = "idle"
    /\ IF AbortsOn(code)
       THEN /\ ret' = PropagatedCode(code)
            /\ pc' = AfterFailure
            /\ UNCHANGED op_j
       ELSE /\ op_j' = op_j + 1
            /\ UNCHANGED <<ret, pc>>
    /\ UNCHANGED <<config, libVars, os_environ, runs, cli, idx, node_i, raised, provVars>>

(* --------------------------- execute_operator -------------------------- *)
\* activate_env() calls get_full_env_path(), which raises ValueError when
\* env_root_path was never injected; the call is made before the try block
ActivateEnvRaises(k) == ~env_root_path[k]

\* An environment value is a list of path entries; a plain value has one.
EnvGet(env, name, default) == IF name \in DOMAIN env THEN env[name] ELSE default

\* activate_env() of the three variants: PATH is the environment's bin
\* directory followed by os.environ.get('PATH', '')
ActivateEnv(op) ==
    LET path == <<FullEnvPath(op)>> \o EnvGet(os_environ, "PATH", <<"">>)
    IN  CASE op.env_type = "UVVirtualEnvConfig" ->
               [PATH |-> path, UV_ENV_ACTIVATED |-> <<"true">>,
                VIRTUAL_ENV |-> <<FullEnvPath(op)>>]
          [] op.env_type = "PixiVirtualEnvConfig" ->
               [PATH |-> path, CONDA_DEFAULT_ENV |-> <<op.env_name>>,
                PIXI_ENV_ACTIVATED |-> <<"true">>,
                CONDA_PREFIX |-> <<FullEnvPath(op)>>]
          [] op.env_type = "CondaVirtualEnvConfig" ->
               [PATH |-> path, CONDA_DEFAULT_ENV |-> <<op.env_name>>,
                CONDA_ENV_ACTIVATED |-> <<"true">>,
                CONDA_PREFIX |-> <<FullEnvPath(op)>>, CONDA_SHLVL |-> <<"1">>]

PipelineId == "p1"
WorkDir == "work_dir"

\* the "standard" variables of execute_operator
StandardVars(op, node_id) ==
    [PIPELINE_ID |-> <<PipelineId>>, NODE_ID |-> <<node_id>>,
     OPERATOR_ID |-> <<op.operator_id>>, WORK_DIR |-> <<WorkDir>>]

\* dict.update(u): the keys of u win
Update(env, u) == u @@ env

\* env_vars = os.environ.copy(), then updated with activate_env(), with
\* extra_env_vars and with the standard variables, in this order
ProcessEnv(op, node_id) ==
    Update(Update(Update(os_environ, ActivateEnv(op)), op.extra_env_vars),
           StandardVars(op, node_id))

\* subprocess.Popen raises (OSError) or returns a running process
PopenOutcomes == {"spawned", "raises"}

\* the state of a call of execute_operator(Ops[k], node_id) at subprocess.Popen
BeginExecute(k, node_id) ==
    /\ cur' = k
    /\ elapsed' = 0
    /\ pipe' = 0
    /\ written' = 0
    /\ logged' = <<>>
    /\ sigterm_at' = NoValue
    /\ kill_at' = NoValue
    /\ timed_out' = FALSE
    /\ penv' = ProcessEnv(Ops[k], node_id)

StartOperator ==
    /\ AtOperator
    /\ OperatorMap(CurOpId) # 0
    /\ LET k == OperatorMap(CurOpId) IN
       IF ActivateEnvRaises(k)
       THEN /\ Raise(Error("ValueError"))
            /\ UNCHANGED <<config, libVars, os_environ, runs, cli, idx, node_i, op_j,
                           provVars, execVars>>
       ELSE \E o \in PopenOutcomes :
            /\ BeginExecute(k, CurNode.node_id)
            /\ IF o = "raises"
               THEN /\ proc' = NoProc
                    /\ UNCHANGED spawned
                    /\ ReturnFromExecute(LogicErrorCode)
               ELSE /\ proc' = [alive |-> TRUE, code |-> NoValue]
                    /\ spawned' = Append(spawned, [node |-> CurNode.node_id, op |-> CurOpId])
                    /\ epc' = "poll"
                    /\ UNCHANGED <<config, libVars, os_environ, runs, cli, pc, idx, node_i,
                                   op_j, ret, raised, provVars, results>>

\* execute_operator called by itself, outside run()
DirectNodeId == "n1"

\* the caller of a direct call receives the code
ReturnToCaller(id, code) ==
    /\ results' = Append(results, [node |-> DirectNodeId, op |-> id, code |-> code])
    /\ epc' = "idle"
    /\ raised' = NoError
    /\ UNCHANGED <<config, libVars, os_environ, runs, cli, pc, idx, node_i, op_j, ret, provVars>>

\* return <code> of execute_operator, to run() or to a direct caller
Return(code) ==
    IF pc = "exec"
    THEN ReturnFromExecute(code)
    ELSE ReturnToCaller(Ops[cur].operator_id, code)

InExecute == pc \in {"exec", "call"}

\* if elapsed_time > operator.timeout
Expired_AtDeadline(e, timeout) == e >= timeout

Expired(e, timeout) == e > timeout

\* the lines in the pipe, oldest first: the last `pipe` lines written
Buffered == [i \in 1..pipe |-> written - pipe + i]

\* for line in process.stdout: logger.info(line)
Drain_Skip(log, lines) == log

Drain(log, lines) == log \o lines

\* line = process.stdout.readline(); if line: logger.info(line)
ReadOne(log, lines) == IF lines = <<>> THEN log ELSE Append(log, Head(lines))

\* What one sampling call meets: readings, a monitor built without a process
\* handle, a process is_running() reports gone, or a psutil error raised by
\* one of the readings.
SampleOutcomes ==
    {"usage", "no_handle", "not_running", "NoSuchProcess", "AccessDenied",
     "ZombieProcess"}

\* get_resource_usage(): the readings, {} when there is no running process
\* or a reading raised one of the errors it catches, otherwise the error
GetResourceUsage_Uncaught(o) ==
    IF o = "usage" THEN "usage"
    ELSE IF o \in {"no_handle", "not_running", "NoSuchProcess", "ZombieProcess"}
    THEN "empty"
    ELSE "raises"

GetResourceUsage(o) ==
    IF o = "usage" THEN "usage"
    ELSE IF o \in {"no_handle", "not_running", "NoSuchProcess", "AccessDenied",
                   "ZombieProcess"}
    THEN "empty"
    ELSE "raises"

\* the order of the checks at the top of the while loop: the exit check
\* (retcode is not None: break) comes before the deadline check
PollBranch_DeadlineFirst(p, e, timeout) ==
    IF Expired(e, timeout) THEN "timeout"
    ELSE IF ~p.alive THEN "exited"
    ELSE "continue"

PollBranch(p, e, timeout) ==
    IF ~p.alive THEN "exited"
    ELSE IF Expired(e, timeout) THEN "timeout"
    ELSE "continue"

\* The top of the while loop: process.poll(), then the timeout check, then
\* the resource sample.
Poll ==
    /\ InExecute
    /\ epc = "poll"
    /\ IF PollBranch(proc, elapsed, Ops[cur].timeout) = "exited"
       THEN \* break; drain process.stdout; return process.returncode
            /\ pipe' = 0
            /\ logged' = Drain(logged, Buffered)
            /\ Return(proc.code)
            /\ UNCHANGED <<spawned, penv, cur, elapsed, proc, written, sigterm_at,
                           kill_at, timed_out>>
       ELSE IF PollBranch(proc, elapsed, Ops[cur].timeout) = "timeout"
       THEN \* process.send_signal(SIGTERM); time.sleep(5)
            /\ timed_out' = TRUE
            /\ sigterm_at' = elapsed
            /\ epc' = "grace"
            /\ UNCHANGED <<config, libVars, os_environ, runs, cli, runVars, provVars, spawned,
                           penv, results, cur, elapsed, proc, pipe, written, logged,
                           kill_at>>
       ELSE \* monitor.log_resource_usage(...); line = process.stdout.readline()
            \E o \in SampleOutcomes :
               IF GetResourceUsage(o) = "raises"
               THEN \* except Exception: return 3, the process left as it is
                    /\ Return(LogicErrorCode)
                    /\ UNCHANGED <<spawned, penv, cur, elapsed, proc, pipe, written,
                                   logged, sigterm_at, kill_at, timed_out>>
               ELSE /\ epc' = "readline"
                    /\ UNCHANGED <<config, libVars, os_environ, runs, cli, runVars, provVars,
                                   spawned, penv, results, cur, elapsed, proc, pipe,
                                   written, logged, sigterm_at, kill_at, timed_out>>

\* readline() returns a line when one is buffered and "" at end of file;
\* otherwise it blocks.  Then time.sleep(monitor.monitor_interval).
ReadlineReturns_LineOnly(n, p) == n > 0

ReadlineReturns(n, p) == n > 0 \/ ~p.alive

Readline ==
    /\ InExecute
    /\ epc = "readline"
    /\ ReadlineReturns(pipe, proc)
    /\ pipe' = IF pipe > 0 THEN pipe - 1 ELSE 0
    /\ logged' = ReadOne(logged, Buffered)
    /\ elapsed' = elapsed + MonitorInterval
    /\ epc' = "poll"
    /\ UNCHANGED <<config, libVars, os_environ, runs, cli, runVars, provVars, spawned, penv,
                   results, cur, proc, written, sigterm_at, kill_at, timed_out>>

\* kill() is sent only when the second poll() finds the process running
KillNeeded_Always(p) == TRUE

KillNeeded(p) == p.alive

\* After time.sleep(5): if process.poll() is None: process.kill(); return 4
Grace ==
    /\ InExecute
    /\ epc = "grace"
    /\ elapsed' = elapsed + GracePeriod
    /\ IF KillNeeded(proc)
       THEN /\ kill_at' = elapsed + GracePeriod
            /\ proc' = [alive |-> FALSE, code |-> SigKillCode]
       ELSE UNCHANGED <<kill_at, proc>>
    /\ Return(TimeoutCode)
    /\ UNCHANGED <<spawned, penv, cur, pipe, written, logged, sigterm_at, timed_out>>

(* --------------------------- the environment --------------------------- *)
\* the operator process writes a line to its stdout
ProcWrite ==
    /\ proc.alive
    /\ written < MaxLines
    /\ pipe' = pipe + 1
    /\ written' = written + 1
    /\ UNCHANGED <<config, libVars, os_environ, runs, cli, runVars, provVars, spawned, penv,
                   results, epc, cur, elapsed, proc, logged, sigterm_at, kill_at,
                   timed_out>>

\* the operator process exits: with a code of its own, or from SIGTERM
ProcExit ==
    /\ proc.alive
    /\ \E c \in ExitCodes \cup (IF sigterm_at # NoValue THEN {SigTermCode} ELSE {}) :
          proc' = [alive |-> FALSE, code |-> c]
    /\ UNCHANGED <<config, libVars, os_environ, runs, cli, runVars, provVars, spawned, penv,
                   results, epc, cur, elapsed, pipe, written, logged, sigterm_at,
                   kill_at, timed_out>>

\* a second passes while the orchestrator is blocked in readline()
Tick ==
    /\ InExecute
    /\ epc = "readline"
    /\ pipe = 0
    /\ proc.alive
    /\ elapsed < MaxElapsed
    /\ elapsed' = elapsed + 1
    /\ UNCHANGED <<config, libVars, os_environ, runs, cli, runVars, provVars, spawned, penv,
                   results, epc, cur, proc, pipe, written, logged, sigterm_at,
                   kill_at, timed_out>>

Next ==
    \/ NodeDone
    \/ RunDone
    \/ OperatorMissing
    \/ StartOperator
    \/ Poll
    \/ Readline
    \/ Grace
    \/ ProcWrite
    \/ ProcExit
    \/ Tick
    \/ Validate
    \/ Clone
    \/ CloneDone
    \/ Setup
    \/ SetupDone

Spec == Init /\ [][Next]_vars

(* ------------------- run() against a bounded pipe --------------------- *)
\* The pipe between the operator process and the orchestrator holds
\* PipeLines lines; a process that writes to a full pipe is blocked in
\* write() until the orchestrator reads a line.  pipe = PipeLines + 1 stands
\* for a full pipe with one line pending in the blocked write.
PipeLines == 1

Blocked == proc.alive /\ pipe > PipeLines

\* the most lines a process writes: enough to fill the pipe again after the
\* orchestrator has read
TermLines == MaxLines + PipeLines

TermConfigs ==
    TimeConfigs
    \cup { [operators |-> DefaultOps(2),
            nodes |-> << Node("n1", <<"a">>), Node("n2", l) >>]
           : l \in {<<"b">>, <<"x">>} }

TermStarts == Start(TermConfigs, {{}}, {{}})

InitTerm ==
  \E start \in TermStarts :
    /\ config = start.config
    /\ code_path = [k \in 1..NOps |-> ""]
    /\ env_root_path = [k \in 1..NOps |-> FALSE]
    /\ code_injected = [k \in 1..NOps |-> FALSE]
    /\ env_cache = <<>>
    /\ disk_code = start.disk_code
    /\ disk_envs = start.disk_envs
    /\ pc = "validate"
    /\ idx = 1
    /\ node_i = 1
    /\ op_j = 1
    /\ ret = NoValue
    /\ raised = NoError
    /\ install_calls = [k \in EnvKeys |-> 0]
    /\ subprocs = 0
    /\ downloads = 0
    /\ install_failed = FALSE
    /\ broken_envs = {}
    /\ clone_calls = 0
    /\ api_calls = 0
    /\ called = NoCall
    /\ provisioned = {}
    /\ spawned = <<>>
    /\ results = <<>>
    /\ epc = "idle"
    /\ cur = 0
    /\ elapsed = 0
    /\ proc = NoProc
    /\ pipe = 0
    /\ written = 0
    /\ sigterm_at = NoValue
    /\ kill_at = NoValue
    /\ timed_out = FALSE
    /\ os_environ = start.environ
    /\ penv = NoEnv
    /\ logged = <<>>
    /\ code_assigns = [k \in 1..NOps |-> 0]
    /\ runs = 1
    /\ cli = NoCli
    /\ LibInit

\* the operator process writes a line, or blocks in the write when the pipe
\* is full
ProcWriteBounded ==
    /\ proc.alive
    /\ ~Blocked
    /\ written < TermLines
    /\ pipe' = pipe + 1
    /\ written' = written + 1
    /\ UNCHANGED <<config, libVars, os_environ, runs, cli, runVars, provVars, spawned, penv,
                   results, epc, cur, elapsed, proc, logged, sigterm_at, kill_at,
                   timed_out>>

\* the operator process exits on its own, which it cannot do while blocked
\* in a write
ProcExitOnItsOwn ==
    /\ proc.alive
    /\ ~Blocked
    /\ \E c \in ExitCodes : proc' = [alive |-> FALSE, code |-> c]
    /\ UNCHANGED <<config, libVars, os_environ, runs, cli, runVars, provVars, spawned, penv,
                   results, epc, cur, elapsed, pipe, written, logged, sigterm_at,
                   kill_at, timed_out>>

\* the operator process dies from the SIGTERM it was sent; a line pending in
\* a blocked write is never written
ProcExitFromSigterm ==
    /\ proc.alive
    /\ sigterm_at # NoValue
    /\ proc' = [alive |-> FALSE, code |-> SigTermCode]
    /\ pipe' = IF Blocked THEN PipeLines ELSE pipe
    /\ written' = IF Blocked THEN written - 1 ELSE written
    /\ UNCHANGED <<config, libVars, os_environ, runs, cli, runVars, provVars, spawned, penv,
                   results, epc, cur, elapsed, logged, sigterm_at, kill_at, timed_out>>

\* the steps of the orchestrator's one thread
OrchestratorStep ==
    \/ Validate
    \/ Clone
    \/ CloneDone
    \/ Setup
    \/ SetupDone
    \/ NodeDone
    \/ RunDone
    \/ OperatorMissing
    \/ StartOperator
    \/ Poll
    \/ Readline
    \/ Grace

NextTerm ==
    \/ Validate
    \/ Clone
    \/ CloneDone
    \/ Setup
    \/ SetupDone
    \/ NodeDone
    \/ RunDone
    \/ OperatorMissing
    \/ StartOperator
    \/ Poll
    \/ Readline
    \/ Grace
    \/ ProcWriteBounded
    \/ ProcExitOnItsOwn
    \/ ProcExitFromSigterm
    \/ Tick

\* The orchestrator thread takes its next step when it has one; every
\* operator process that is not blocked eventually exits on its own.
SpecTerm ==
    /\ InitTerm
    /\ [][NextTerm]_vars
    /\ WF_vars(OrchestratorStep)
    /\ WF_vars(ProcExitOnItsOwn)

(* ------------- the methods called directly, in any order --------------- *)
\* A PipelineExecutor whose setup_virtual_env, and whose operators'
\* env_config.install_env, are called directly, up to MaxCalls times, on
\* operators that are cloned already or not.
ApiStarts == Start(EnvConfigs, {{}}, SUBSET EnvNames)

InitApi ==
  \E start \in ApiStarts, cloned \in BOOLEAN :
    /\ config = start.config
    /\ code_path = [k \in 1..NOps |-> IF cloned THEN CodePathOf(Ops[k]) ELSE ""]
    /\ env_root_path = [k \in 1..NOps |-> FALSE]
    /\ code_injected = [k \in 1..NOps |-> FALSE]
    /\ env_cache = <<>>
    /\ disk_code = IF cloned THEN {CodePathOf(Ops[k]) : k \in 1..NOps} ELSE {}
    /\ disk_envs = start.disk_envs
    /\ pc = "api"
    /\ idx = 1
    /\ node_i = 1
    /\ op_j = 1
    /\ ret = NoValue
    /\ raised = NoError
    /\ install_calls = [k \in EnvKeys |-> 0]
    /\ subprocs = 0
    /\ downloads = 0
    /\ install_failed = FALSE
    /\ broken_envs = {}
    /\ clone_calls = 0
    /\ api_calls = 0
    /\ called = NoCall
    /\ provisioned = {}
    /\ spawned = <<>>
    /\ results = <<>>
    /\ epc = "idle"
    /\ cur = 0
    /\ elapsed = 0
    /\ proc = NoProc
    /\ pipe = 0
    /\ written = 0
    /\ sigterm_at = NoValue
    /\ kill_at = NoValue
    /\ timed_out = FALSE
    /\ os_environ = start.environ
    /\ penv = NoEnv
    /\ logged = <<>>
    /\ code_assigns = [k \in 1..NOps |-> IF cloned THEN 1 ELSE 0]
    /\ runs = 0
    /\ cli = NoCli
    /\ LibInit

\* executor.setup_virtual_env(operator)
ApiSetup ==
    /\ pc \in {"api", "call"}
    /\ epc = "idle"
    /\ api_calls < MaxCalls
    /\ \E k \in 1..NOps, err \in ErrorTypes :
          /\ SetupVirtualEnv(k, err)
          /\ called' = [method |-> "setup_virtual_env", op |-> k]
          /\ raised' = IF err = "" THEN NoError ELSE Error(err)
    /\ api_calls' = api_calls + 1
    /\ UNCHANGED <<config, libVars, os_environ, runs, cli, pc, idx, node_i, op_j, ret, code_path, disk_code,
                   clone_calls, code_assigns, execVars>>

\* operator.env_config.install_env(): get_full_env_path() raises ValueError
\* when no env root was injected; s3_client is a field the caller may have set
ApiInstall ==
    /\ pc = "api"
    /\ api_calls < MaxCalls
    /\ \E k \in 1..NOps :
          /\ called' = [method |-> "install_env", op |-> k]
          /\ IF ~env_root_path[k]
             THEN /\ raised' = Error("ValueError")
                  /\ UNCHANGED <<install_calls, subprocs, downloads, install_failed, broken_envs,
                                 disk_envs>>
             ELSE \E has_client \in BOOLEAN :
                  \E o \in InstallEnv(Ops[k].env_type, code_injected[k], has_client) :
                     /\ ApplyInstall(Ops[k], o)
                     /\ raised' = IF o.err = "" THEN NoError ELSE Error(o.err)
    /\ api_calls' = api_calls + 1
    /\ UNCHANGED <<config, libVars, os_environ, runs, cli, pc, idx, node_i, op_j, ret, code_path, env_root_path,
                   code_injected, env_cache, disk_code, clone_calls, code_assigns,
                   provisioned, execVars>>

NextApi ==
    \/ ApiSetup
    \/ ApiInstall

SpecApi == InitApi /\ [][NextApi]_vars

(* ------------------ execute_operator called directly ------------------- *)
\* A PipelineExecutor on a one-operator pipeline whose setup_virtual_env and
\* execute_operator are called directly, up to MaxCalls times, the operator
\* being cloned already (code_path set) or not (code_path None).
CallStarts == Start(TimeConfigs, {{}}, {{}})

InitCall ==
  \E start \in CallStarts, cloned \in BOOLEAN :
    /\ config = start.config
    /\ code_path = [k \in 1..NOps |-> IF cloned THEN CodePathOf(Ops[k]) ELSE ""]
    /\ env_root_path = [k \in 1..NOps |-> FALSE]
    /\ code_injected = [k \in 1..NOps |-> FALSE]
    /\ env_cache = <<>>
    /\ disk_code = IF cloned THEN {CodePathOf(Ops[k]) : k \in 1..NOps} ELSE {}
    /\ disk_envs = start.disk_envs
    /\ pc = "call"
    /\ idx = 1
    /\ node_i = 1
    /\ op_j = 1
    /\ ret = NoValue
    /\ raised = NoError
    /\ install_calls = [k \in EnvKeys |-> 0]
    /\ subprocs = 0
    /\ downloads = 0
    /\ install_failed = FALSE
    /\ broken_envs = {}
    /\ clone_calls = 0
    /\ api_calls = 0
    /\ called = NoCall
    /\ provisioned = {}
    /\ spawned = <<>>
    /\ results = <<>>
    /\ epc = "idle"
    /\ cur = 0
    /\ elapsed = 0
    /\ proc = NoProc
    /\ pipe = 0
    /\ written = 0
    /\ sigterm_at = NoValue
    /\ kill_at = NoValue
    /\ timed_out = FALSE
    /\ os_environ = start.environ
    /\ penv = NoEnv
    /\ logged = <<>>
    /\ code_assigns = [k \in 1..NOps |-> IF cloned THEN 1 ELSE 0]
    /\ runs = 0
    /\ cli = NoCli
    /\ LibInit

\* executor.execute_operator(operator, node_id): cwd=str(operator.code_path)
\* is "None" for an operator that was never cloned, and Popen raises unless a
\* directory of that name exists where the orchestrator runs
CallExecute ==
    /\ pc = "call"
    /\ epc = "idle"
    /\ api_calls < MaxCalls
    /\ api_calls' = api_calls + 1
    /\ \E k \in 1..NOps :
          /\ called' = [method |-> "execute_operator", op |-> k]
          /\ IF ActivateEnvRaises(k)
             THEN /\ raised' = Error("ValueError")
                  /\ UNCHANGED <<config, libVars, os_environ, runs, cli, pc, idx, node_i, op_j,
                                 ret, execVars>>
             ELSE \E o \in PopenOutcomes :
                  /\ BeginExecute(k, DirectNodeId)
                  /\ IF o = "raises"
                     THEN /\ proc' = NoProc
                          /\ UNCHANGED spawned
                          /\ results' = Append(results,
                                [node |-> DirectNodeId, op |-> Ops[k].operator_id,
                                 code |-> LogicErrorCode])
                          /\ epc' = "idle"
                     ELSE /\ proc' = [alive |-> TRUE, code |-> NoValue]
                          /\ spawned' = Append(spawned,
                                [node |-> DirectNodeId, op |-> Ops[k].operator_id])
                          /\ epc' = "poll"
                          /\ UNCHANGED results
                  /\ raised' = NoError
                  /\ UNCHANGED <<config, libVars, os_environ, runs, cli, pc, idx, node_i, op_j,
                                 ret>>
    /\ UNCHANGED <<code_path, env_root_path, code_injected, env_cache, disk_code,
                   disk_envs, install_calls, subprocs, downloads, install_failed, broken_envs,
                   clone_calls, code_assigns, provisioned>>

\* readline() raises on a line it cannot decode (text=True): the line is
\* consumed, `except Exception` returns 3, and nothing signals or waits for
\* the process
ReadlineRaises ==
    /\ pc = "call"
    /\ epc = "readline"
    /\ pipe > 0
    /\ pipe' = pipe - 1
    /\ Return(LogicErrorCode)
    /\ UNCHANGED <<spawned, penv, cur, elapsed, proc, written, logged, sigterm_at,
                   kill_at, timed_out>>

NextCall ==
    \/ ApiSetup
    \/ CallExecute
    \/ Poll
    \/ Readline
    \/ ReadlineRaises
    \/ Grace
    \/ ProcWrite
    \/ ProcExit
    \/ Tick

SpecCall == InitCall /\ [][NextCall]_vars

(* ------------------------- ProjectInitiator ---------------------------- *)
\* the project root is the executor's work_dir or another directory
ProjectRoots == {WorkDir, "project_root"}

ProjectPathSeq ==
    <<"project_root/operators/a", "project_root/operators/b",
      "project_root/operators/c", "project_root/operators/d">>

\* project_root / operators_dir / operator_id, with the default operators_dir
InitiatorCodePathOf(root, op) ==
    IF root = WorkDir
    THEN CodePathOf(op)
    ELSE ProjectPathSeq[CHOOSE i \in 1..Len(OpIdSeq) : OpIdSeq[i] = op.operator_id]

\* initialize_all() of a new ProjectInitiator(config, root): validation, the
\* clone loop, which stops at operator `failed` when its clone raises
\* (0: no clone raises), and the setup loop, whose first setup_virtual_env
\* injects the paths and then reads self.config.s3_config.  The exception
\* that leaves initialize_all is recorded in raised.
InitializeAll(root) ==
    LET m == FirstMissing IN
    IF m # <<0, 0>>
    THEN /\ raised' = [type |-> "DependencyMissingError",
                       operator |-> Ops[m[1]].operator_id,
                       dep |-> Ops[m[1]].upstream_dependencies[m[2]]]
         /\ UNCHANGED provVars
    ELSE \E failed \in 0..NOps :
         LET n == IF failed = 0 THEN NOps ELSE failed - 1
             path(k) == InitiatorCodePathOf(root, Ops[k])
             cloned == {k \in 1..n : path(k) \notin disk_code}
         IN  /\ failed # 0 => path(failed) \notin disk_code
             /\ code_path' = [k \in 1..NOps |-> IF k <= n THEN path(k) ELSE code_path[k]]
             /\ code_assigns' = [k \in 1..NOps |->
                                   IF k <= n THEN code_assigns[k] + 1 ELSE code_assigns[k]]
             /\ disk_code' = disk_code \cup {path(k) : k \in 1..n}
             /\ clone_calls' = clone_calls + Cardinality(cloned)
                                 + (IF failed = 0 THEN 0 ELSE 1)
             /\ IF failed # 0
                THEN /\ raised' = Error("GitCommandError")
                     /\ UNCHANGED <<env_root_path, code_injected>>
                ELSE IF NOps = 0
                THEN /\ raised' = NoError
                     /\ UNCHANGED <<env_root_path, code_injected>>
                ELSE /\ env_root_path' = [env_root_path EXCEPT ![1] = TRUE]
                     /\ code_injected' = [code_injected EXCEPT
                                            ![1] = HasCodePathField(Ops[1].env_type)]
                     /\ raised' = Error("AttributeError")
             /\ UNCHANGED <<env_cache, disk_envs, install_calls, subprocs, downloads,
                            install_failed, broken_envs, api_calls, called, provisioned>>

(* --------------------------- the run command --------------------------- *)
\* a pipeline without operators or nodes
EmptyConfig == [operators |-> <<>>, nodes |-> <<>>]

CliConfigs ==
    {EmptyConfig} \cup TimeConfigs \cup RunnerConfigs
    \cup {c \in NodeConfigs : Len(c.nodes) = 1}

\* --node, --operator, --skip-init
CliOptions ==
    {[NoCli EXCEPT !.node = n, !.operator = o, !.skip_init = s] :
        n \in {"", "n1"}, o \in {"", "a", "b"}, s \in BOOLEAN}

InitCli ==
  \E start \in Start(CliConfigs, {{}}, {{}}), options \in CliOptions :
    /\ config = start.config
    /\ code_path = [k \in 1..NOps |-> ""]
    /\ env_root_path = [k \in 1..NOps |-> FALSE]
    /\ code_injected = [k \in 1..NOps |-> FALSE]
    /\ env_cache = <<>>
    /\ disk_code = start.disk_code
    /\ disk_envs = start.disk_envs
    /\ pc = IF options.skip_init THEN "cli_run" ELSE "cli_init"
    /\ idx = 1
    /\ node_i = 1
    /\ op_j = 1
    /\ ret = NoValue
    /\ raised = NoError
    /\ install_calls = [k \in EnvKeys |-> 0]
    /\ subprocs = 0
    /\ downloads = 0
    /\ install_failed = FALSE
    /\ broken_envs = {}
    /\ clone_calls = 0
    /\ api_calls = 0
    /\ called = NoCall
    /\ provisioned = {}
    /\ spawned = <<>>
    /\ results = <<>>
    /\ epc = "idle"
    /\ cur = 0
    /\ elapsed = 0
    /\ proc = NoProc
    /\ pipe = 0
    /\ written = 0
    /\ sigterm_at = NoValue
    /\ kill_at = NoValue
    /\ timed_out = FALSE
    /\ os_environ = start.environ
    /\ penv = NoEnv
    /\ logged = <<>>
    /\ code_assigns = [k \in 1..NOps |-> 0]
    /\ runs = 0
    /\ cli = options
    /\ LibInit

\* if not skip_init: ProjectInitiator(...).initialize_all(); an exception
\* reaches the except clause of the command: sys.exit(1)
CliInitialize ==
    /\ pc = "cli_init"
    /\ \E root \in ProjectRoots : InitializeAll(root)
    /\ IF raised'.type = "none"
       THEN pc' = "cli_run" /\ UNCHANGED cli
       ELSE pc' = "done" /\ cli' = [cli EXCEPT !.exit = CliErrorExit]
    /\ UNCHANGED <<config, libVars, os_environ, runs, idx, node_i, op_j, ret, execVars>>

\* executor.run(target_node=node, target_operator=operator): run(self) has no
\* such parameters, the call raises TypeError before the body of run() is
\* entered, and the except clause of the command exits with 1
CliRun ==
    /\ pc = "cli_run"
    /\ runs' = runs + 1
    /\ raised' = Error("TypeError")
    /\ pc' = "done"
    /\ cli' = [cli EXCEPT !.exit = CliErrorExit]
    /\ UNCHANGED <<config, libVars, os_environ, idx, node_i, op_j, ret, provVars, execVars>>

NextCli ==
    \/ CliInitialize
    \/ CliRun

SpecCli == InitCli /\ [][NextCli]_vars

(* ------------------- the objects over their lifetime ------------------- *)
\* One PipelineConfig used by a ProjectInitiator and then by a
\* PipelineExecutor whose run() is called up to MaxRuns times.
LifeConfigs ==
    TimeConfigs \cup RunnerConfigs \cup {c \in NodeConfigs : Len(c.nodes) = 1}

InitLife ==
  \E start \in Start(LifeConfigs, {{}}, {{}}) :
    /\ config = start.config
    /\ code_path = [k \in 1..NOps |-> ""]
    /\ env_root_path = [k \in 1..NOps |-> FALSE]
    /\ code_injected = [k \in 1..NOps |-> FALSE]
    /\ env_cache = <<>>
    /\ disk_code = start.disk_code
    /\ disk_envs = start.disk_envs
    /\ pc = "fresh"
    /\ idx = 1
    /\ node_i = 1
    /\ op_j = 1
    /\ ret = NoValue
    /\ raised = NoError
    /\ install_calls = [k \in EnvKeys |-> 0]
    /\ subprocs = 0
    /\ downloads = 0
    /\ install_failed = FALSE
    /\ broken_envs = {}
    /\ clone_calls = 0
    /\ api_calls = 0
    /\ called = NoCall
    /\ provisioned = {}
    /\ spawned = <<>>
    /\ results = <<>>
    /\ epc = "idle"
    /\ cur = 0
    /\ elapsed = 0
    /\ proc = NoProc
    /\ pipe = 0
    /\ written = 0
    /\ sigterm_at = NoValue
    /\ kill_at = NoValue
    /\ timed_out = FALSE
    /\ os_environ = start.environ
    /\ penv = NoEnv
    /\ logged = <<>>
    /\ code_assigns = [k \in 1..NOps |-> 0]
    /\ runs = 0
    /\ cli = NoCli
    /\ LibInit

\* ProjectInitiator(config, root).initialize_all(), its exception caught by
\* the caller
LifeInitialize ==
    /\ pc = "fresh"
    /\ \E root \in ProjectRoots : InitializeAll(root)
    /\ pc' = "initialized"
    /\ UNCHANGED <<config, libVars, os_environ, runs, cli, idx, node_i, op_j, ret, execVars>>

\* executor.run() is called: for the first time, or again after it returned
CallRun ==
    /\ pc \in {"fresh", "initialized", "done"}
    /\ runs < MaxRuns
    /\ runs' = runs + 1
    /\ pc' = "validate"
    /\ idx' = 1
    /\ node_i' = 1
    /\ op_j' = 1
    /\ ret' = NoValue
    /\ raised' = NoError
    /\ UNCHANGED <<config, libVars, os_environ, cli, provVars, execVars>>

NextLife ==
    \/ LifeInitialize
    \/ CallRun
    \/ Validate
    \/ Clone
    \/ CloneDone
    \/ Setup
    \/ SetupDone
    \/ NodeDone
    \/ RunDone
    \/ OperatorMissing
    \/ StartOperator
    \/ Poll
    \/ Readline
    \/ Grace
    \/ ProcWrite
    \/ ProcExit
    \/ Tick

SpecLife == InitLife /\ [][NextLife]_vars

(* ------------------------- the operator library ------------------------ *)
\* No pipeline is loaded and no orchestrator method is running.
OrchestratorAtRest ==
    /\ config = EmptyConfig
    /\ code_path = <<>>
    /\ env_root_path = <<>>
    /\ code_injected = <<>>
    /\ env_cache = <<>>
    /\ disk_code = {}
    /\ disk_envs = {}
    /\ pc = "lib"
    /\ idx = 1
    /\ node_i = 1
    /\ op_j = 1
    /\ ret = NoValue
    /\ raised = NoError
    /\ install_calls = [k \in EnvKeys |-> 0]
    /\ subprocs = 0
    /\ downloads = 0
    /\ install_failed = FALSE
    /\ broken_envs = {}
    /\ clone_calls = 0
    /\ api_calls = 0
    /\ called = NoCall
    /\ provisioned = {}
    /\ spawned = <<>>
    /\ results = <<>>
    /\ epc = "idle"
    /\ cur = 0
    /\ elapsed = 0
    /\ proc = NoProc
    /\ pipe = 0
    /\ written = 0
    /\ sigterm_at = NoValue
    /\ kill_at = NoValue
    /\ timed_out = FALSE
    /\ os_environ = NoEnv
    /\ penv = NoEnv
    /\ logged = <<>>
    /\ code_assigns = <<>>
    /\ runs = 0
    /\ cli = NoCli

(* ----------------------------- the registry ---------------------------- *)
RegistryIds == {"op1", "op2"}

\* what a decorator may be applied to: two BasicRunner subclasses, a class
\* that is not one, and an object that is not a class
RunnerClasses == {"RunnerA", "RunnerB"}
Decorated == RunnerClasses \cup {"PlainClass", "function"}

\* issubclass(cls, BasicRunner); issubclass raises TypeError itself when cls
\* is not a class
PassesSubclassCheck(cls) == cls \in RunnerClasses

\* _operator_registry[operator_id] = cls
RegistryPut_KeepFirst(reg, id, cls) == reg @@ (id :> cls)

RegistryPut(reg, id, cls) == (id :> cls) @@ reg

\* register_operator(id)(cls)
RegisterOperator ==
    /\ pc = "lib"
    /\ api_calls < MaxCalls
    /\ api_calls' = api_calls + 1
    /\ \E id \in RegistryIds, cls \in Decorated :
          /\ called' = [method |-> "register_operator", op |-> 0]
          /\ IF ~PassesSubclassCheck(cls)
             THEN /\ raised' = Error("TypeError")
                  /\ UNCHANGED <<registry, reg_log, reg_ret>>
             ELSE /\ raised' = NoError
                  /\ registry' = RegistryPut(registry, id, cls)
                  /\ reg_log' = Append(reg_log, <<id, cls>>)
                  /\ reg_ret' = [id |-> id, value |-> cls]
    /\ UNCHANGED <<config, os_environ, runs, cli, pc, idx, node_i, op_j, ret,
                   code_path, env_root_path, code_injected, env_cache, disk_code,
                   disk_envs, install_calls, subprocs, downloads, install_failed, broken_envs,
                   clone_calls, code_assigns, provisioned, execVars, pathVars, inst, stream>>

\* _operator_registry.get(operator_id)
RegistryGet(reg, id) == IF id \in DOMAIN reg THEN reg[id] ELSE "None"

\* get_operator_class(id)
GetOperatorClass ==
    /\ pc = "lib"
    /\ api_calls < MaxCalls
    /\ api_calls' = api_calls + 1
    /\ \E id \in RegistryIds :
          /\ called' = [method |-> "get_operator_class", op |-> 0]
          /\ reg_ret' = [id |-> id, value |-> RegistryGet(registry, id)]
    /\ raised' = NoError
    /\ UNCHANGED <<config, os_environ, runs, cli, pc, idx, node_i, op_j, ret,
                   code_path, env_root_path, code_injected, env_cache, disk_code,
                   disk_envs, install_calls, subprocs, downloads, install_failed, broken_envs,
                   clone_calls, code_assigns, provisioned, execVars, registry,
                   reg_log, pathVars, inst, stream>>

InitRegistry == OrchestratorAtRest /\ LibInit

NextRegistry ==
    \/ RegisterOperator
    \/ GetOperatorClass

SpecRegistry == InitRegistry /\ [][NextRegistry]_vars

(* ---------------------- BasicRunner construction ----------------------- *)
Roots == {"input_root", "output_root", "workspace_root"}

\* the directory trees that can exist: under a nested layout the output root
\* exists only inside an existing workspace root
Layouts ==
    {l \in [dirs : SUBSET Roots, nested : BOOLEAN] :
        l.nested /\ "output_root" \in l.dirs => "workspace_root" \in l.dirs}

\* os.makedirs(path, exist_ok=True): the directory and its missing parents
MakeDirs_Both(dirs, path, under) == dirs \cup {"output_root", "workspace_root"}

MakeDirs(dirs, path, under) ==
    dirs \cup {path} \cup (IF under THEN {"workspace_root"} ELSE {})

\* _init_paths(): warn for a missing input root and a missing workspace root,
\* then create the output root
InitPaths(call) ==
    /\ built' = [call EXCEPT !.ran = TRUE,
                             !.warned = {"input_root", "workspace_root"} \ fs]
    /\ fs' = MakeDirs(fs, "output_root", nested)

\* the arguments of a construction: two calls that differ in pipeline_id, in
\* node_id and in the spelling of the three path roots, which name the same
\* directories
RunnerArgs ==
    {[pipeline_id |-> "p1", node_id |-> "n1", roots |-> "absolute"],
     [pipeline_id |-> "p2", node_id |-> "n2", roots |-> "relative"]}

\* the operator ids a construction passes: the registered ids and the empty
\* string
OperatorIds == RegistryIds \cup {""}

\* operator_id = kwargs.get("operator_id") or (args[2] if len(args) > 2 else
\* None): an empty operator id is keyed as None
KeyId(id) == IF id = "" THEN "None" ELSE id

\* key = (cls, operator_id)
SingletonKey_IdOnly(cls, id) == <<"BasicRunner", KeyId(id)>>

SingletonKey(cls, id) == <<cls, KeyId(id)>>

\* SomeRunner(pipeline_id, node_id, operator_id, input_root, output_root,
\* workspace_root): SingletonMeta returns the instance already made for the
\* class and operator id, otherwise __init__ runs
ConstructOperator ==
    /\ pc = "lib"
    /\ api_calls < MaxCalls
    /\ api_calls' = api_calls + 1
    /\ \E cls \in RunnerClasses, id \in OperatorIds, args \in RunnerArgs :
          LET key == SingletonKey(cls, id)
              new == Instance(cls, id, args, Cardinality(DOMAIN instances) + 1)
          IN
          /\ called' = [method |-> "BasicRunner", op |-> 0]
          /\ IF key \in DOMAIN instances
             THEN /\ built' = Construction(cls, id, args, instances[key])
                  /\ UNCHANGED <<fs, instances>>
             ELSE /\ InitPaths(Construction(cls, id, args, new))
                  /\ instances' = (key :> new) @@ instances
    /\ raised' = NoError
    /\ UNCHANGED <<config, os_environ, runs, cli, pc, idx, node_i, op_j, ret,
                   code_path, env_root_path, code_injected, env_cache, disk_code,
                   disk_envs, install_calls, subprocs, downloads, install_failed, broken_envs,
                   clone_calls, code_assigns, provisioned, execVars, regVars, nested, inst, stream>>

\* a directory is removed between two constructions
RemoveDir ==
    /\ pc = "lib"
    /\ \E d \in fs :
          /\ ~(nested /\ d = "workspace_root" /\ "output_root" \in fs)
          /\ fs' = fs \ {d}
    /\ UNCHANGED <<config, os_environ, runs, cli, runVars, provVars, execVars,
                   regVars, nested, instances, built, inst, stream>>

InitPathsSpec ==
    /\ OrchestratorAtRest
    /\ registry = <<>>
    /\ reg_log = <<>>
    /\ reg_ret = [id |-> "", value |-> "None"]
    /\ \E l \in Layouts : fs = l.dirs /\ nested = l.nested
    /\ instances = <<>>
    /\ built = NotBuilt
    /\ inst = NoInstall
    /\ stream = NoStream

NextPaths ==
    \/ ConstructOperator
    \/ RemoveDir

SpecPaths == InitPathsSpec /\ [][NextPaths]_vars

(* ---------------------- install_env, step by step ---------------------- *)
\* The steps of the three variants, in the order of the code.
UVOrder == <<"uv_venv", "pip_install">>
PixiOrder == <<"check_manifest", "pixi_install">>
CondaOrder == <<"download", "decompress", "unlink", "repair">>

\* what a failing step does: raise the error named, or only log a warning
StepFailure_Strict(step) ==
    IF step = "check_manifest" THEN "FileNotFoundError" ELSE "EnvInstallError"

StepFailure(step) ==
    CASE step = "check_manifest" -> "FileNotFoundError"
      [] step = "repair" -> "warning"
      [] OTHER -> "EnvInstallError"

Fail(i, err) == [i EXCEPT !.pc = "raised", !.err = err]

Finish(i) == [i EXCEPT !.pc = "returned"]

\* run one step: on failure raise or warn, otherwise stand after the step
RunStep(i, step) ==
    LET j == [i EXCEPT !.steps = Append(@, step)] IN
    IF step \notin i.fails THEN [j EXCEPT !.pc = step]
    ELSE IF StepFailure(step) = "warning"
    THEN [j EXCEPT !.pc = step, !.warned = TRUE]
    ELSE Fail(j, StepFailure(step))

\* UVVirtualEnvConfig.install_env
UVNext(i) ==
    CASE i.pc = "start" -> RunStep(i, "uv_venv")
      [] i.pc = "uv_venv" -> IF i.has_code THEN RunStep(i, "pip_install") ELSE Finish(i)
      [] i.pc = "pip_install" -> Finish(i)

\* PixiVirtualEnvConfig.install_env
PixiNext(i) ==
    CASE i.pc = "start" ->
            IF ~i.has_code THEN Fail(i, "EnvInstallError")
            ELSE RunStep(i, "check_manifest")
      [] i.pc = "check_manifest" -> RunStep(i, "pixi_install")
      [] i.pc = "pixi_install" -> Finish(i)

\* CondaVirtualEnvConfig.install_env
CondaNext(i) ==
    CASE i.pc = "start" ->
            IF ~i.has_client THEN Finish([i EXCEPT !.warned = TRUE])
            ELSE RunStep(i, "download")
      [] i.pc = "download" -> RunStep(i, "decompress")
      [] i.pc = "decompress" -> RunStep(i, "unlink")
      [] i.pc = "unlink" ->
            IF i.need_update /\ i.conda_bin THEN RunStep(i, "repair") ELSE Finish(i)
      [] i.pc = "repair" -> Finish(i)

\* the calls made: every combination of injected fields, files present and
\* failing steps; the manifest check fails exactly when the file is absent
UVCalls ==
    {InstallCall("UVVirtualEnvConfig", c, FALSE, FALSE, FALSE, FALSE, f) :
        c \in BOOLEAN, f \in SUBSET {"uv_venv", "pip_install"}}

PixiCalls ==
    {InstallCall("PixiVirtualEnvConfig", c, FALSE, m, FALSE, FALSE,
                 f \cup (IF m THEN {} ELSE {"check_manifest"})) :
        c \in BOOLEAN, m \in BOOLEAN, f \in SUBSET {"pixi_install"}}

CondaCalls ==
    {InstallCall("CondaVirtualEnvConfig", FALSE, c, FALSE, u, b, f) :
        c \in BOOLEAN, u \in BOOLEAN, b \in BOOLEAN,
        f \in SUBSET {"download", "decompress", "repair"}}

InstallRunning == pc = "lib" /\ inst.pc \notin {"returned", "raised"}

UVInstallStep ==
    /\ InstallRunning
    /\ inst.ty = "UVVirtualEnvConfig"
    /\ inst' = UVNext(inst)
    /\ UNCHANGED <<config, os_environ, runs, cli, runVars, provVars, execVars,
                   regVars, pathVars, stream>>

PixiInstallStep ==
    /\ InstallRunning
    /\ inst.ty = "PixiVirtualEnvConfig"
    /\ inst' = PixiNext(inst)
    /\ UNCHANGED <<config, os_environ, runs, cli, runVars, provVars, execVars,
                   regVars, pathVars, stream>>

CondaInstallStep ==
    /\ InstallRunning
    /\ inst.ty = "CondaVirtualEnvConfig"
    /\ inst' = CondaNext(inst)
    /\ UNCHANGED <<config, os_environ, runs, cli, runVars, provVars, execVars,
                   regVars, pathVars, stream>>

InitInstall ==
    /\ OrchestratorAtRest
    /\ registry = <<>>
    /\ reg_log = <<>>
    /\ reg_ret = [id |-> "", value |-> "None"]
    /\ fs = {}
    /\ nested = FALSE
    /\ instances = <<>>
    /\ built = NotBuilt
    /\ inst \in UVCalls \cup PixiCalls \cup CondaCalls
    /\ stream = NoStream

NextInstall ==
    \/ UVInstallStep
    \/ PixiInstallStep
    \/ CondaInstallStep

SpecInstall == InitInstall /\ [][NextInstall]_vars

(* --------------------------- run_cmd_stream ---------------------------- *)
StreamTimeoutReturn == 0 - 1
StreamFailureReturn == 0 - 1
StreamGrace == 5

StreamTimeouts == {0} \cup Timeouts

\* if timeout and (time.time() - start_time) > timeout
StreamExpired(e, timeout) == timeout # 0 /\ e > timeout

StreamReturn(st, value) == [st EXCEPT !.pc = "done", !.ret = value]

\* except Exception: return -1
StreamFailure(st) == StreamReturn([st EXCEPT !.failed = TRUE], StreamFailureReturn)

StreamOrchestratorIdle ==
    UNCHANGED <<config, os_environ, runs, cli, runVars, provVars, execVars,
                regVars, pathVars, inst>>

\* process = subprocess.Popen(...); start_time = time.time()
StreamSpawn ==
    /\ pc = "lib"
    /\ stream.pc = "start"
    /\ \E o \in PopenOutcomes :
          stream' = IF o = "raises" THEN StreamFailure(stream)
                    ELSE [stream EXCEPT !.pc = "poll",
                                        !.proc = [alive |-> TRUE, code |-> NoValue]]
    /\ StreamOrchestratorIdle

\* the top of the while loop: process.poll(), then the timeout check
StreamPoll ==
    /\ pc = "lib"
    /\ stream.pc = "poll"
    /\ stream' =
          IF ~stream.proc.alive
          THEN \* break; for line in process.stdout; return process.returncode
               StreamReturn([stream EXCEPT !.out = @ + stream.pipe, !.pipe = 0],
                            stream.proc.code)
          ELSE IF StreamExpired(stream.elapsed, stream.timeout)
          THEN \* process.send_signal(signal.SIGTERM); time.sleep(5)
               [stream EXCEPT !.timed_out = TRUE, !.sigterm_at = stream.elapsed,
                              !.pc = "grace"]
          ELSE [stream EXCEPT !.pc = "readline"]
    /\ StreamOrchestratorIdle

\* line = process.stdout.readline(): a line when one is buffered, "" at end
\* of file, otherwise it blocks; on_output(line) may raise
StreamReadline ==
    /\ pc = "lib"
    /\ stream.pc = "readline"
    /\ stream.pipe > 0 \/ ~stream.proc.alive
    /\ \E cb \in {"ok", "raises"} :
          stream' =
             IF stream.pipe = 0 THEN [stream EXCEPT !.pc = "poll"]
             ELSE IF cb = "raises" THEN StreamFailure([stream EXCEPT !.pipe = @ - 1])
             ELSE [stream EXCEPT !.pipe = @ - 1, !.out = @ + 1, !.pc = "poll"]
    /\ StreamOrchestratorIdle

\* after time.sleep(5): if process.poll() is None: process.kill(); return -1
StreamKillNeeded(p) == p.alive

StreamGraceOver ==
    /\ pc = "lib"
    /\ stream.pc = "grace"
    /\ LET after == [stream EXCEPT !.elapsed = @ + StreamGrace] IN
       stream' =
          IF StreamKillNeeded(stream.proc)
          THEN StreamReturn([after EXCEPT !.kill_at = after.elapsed,
                                          !.proc = [alive |-> FALSE,
                                                    code |-> SigKillCode]],
                            StreamTimeoutReturn)
          ELSE StreamReturn(after, StreamTimeoutReturn)
    /\ StreamOrchestratorIdle

\* the process writes a line to its stdout
StreamProcWrite ==
    /\ pc = "lib"
    /\ stream.proc.alive
    /\ stream.pc # "done"
    /\ stream.written < MaxLines
    /\ stream' = [stream EXCEPT !.pipe = @ + 1, !.written = @ + 1]
    /\ StreamOrchestratorIdle

\* the process exits: with a code of its own, or from SIGTERM
StreamProcExit ==
    /\ pc = "lib"
    /\ stream.proc.alive
    /\ stream.pc # "done"
    /\ \E c \in ExitCodes \cup
                (IF stream.sigterm_at # NoValue THEN {SigTermCode} ELSE {}) :
          stream' = [stream EXCEPT !.proc = [alive |-> FALSE, code |-> c]]
    /\ StreamOrchestratorIdle

\* time passes while readline() blocks
StreamTick ==
    /\ pc = "lib"
    /\ stream.pc = "readline"
    /\ stream.pipe = 0
    /\ stream.proc.alive
    /\ stream.elapsed < MaxElapsed
    /\ stream' = [stream EXCEPT !.elapsed = @ + 1]
    /\ StreamOrchestratorIdle

InitStream ==
    /\ OrchestratorAtRest
    /\ registry = <<>>
    /\ reg_log = <<>>
    /\ reg_ret = [id |-> "", value |-> "None"]
    /\ fs = {}
    /\ nested = FALSE
    /\ instances = <<>>
    /\ built = NotBuilt
    /\ inst = NoInstall
    /\ stream \in {StreamCall(t) : t \in StreamTimeouts}

NextStream ==
    \/ StreamSpawn
    \/ StreamPoll
    \/ StreamReadline
    \/ StreamGraceOver
    \/ StreamProcWrite
    \/ StreamProcExit
    \/ StreamTick

SpecStream == InitStream /\ [][NextStream]_vars

(* ======================= properties of the program ===================== *)
RECURSIVE FlattenNodes(_, _)
FlattenNodes(nodes, i) ==
    IF i > Len(nodes) THEN <<>>
    ELSE [k \in 1..Len(nodes[i].operator_ids) |->
             [node |-> nodes[i].node_id, op |-> nodes[i].operator_ids[k]]]
         \o FlattenNodes(nodes, i + 1)

\* the operator occurrences in configured node order, operator_ids order
Flat == FlattenNodes(Nodes, 1)

ConfiguredIds == {Ops[k].operator_id : k \in 1..NOps}

AllNodeIdsExist == \A i \in 1..Len(Flat) : Flat[i].op \in ConfiguredIds

\* run() got past validation, cloning and environment setup
ReachedExecution ==
    /\ pc \in {"exec", "done"}
    /\ idx > NOps
    /\ raised.type \in {"none", "ValueError"}

LastResult == results[Len(results)]

\* C1: a run that reaches the execution phase with every node's operator ids
\* configured executes the operators in node order and operator_ids order,
\* returns the code of the first execute_operator result that is nonzero, and
\* returns 0 when every operator of every node returned 0.
C1_ExitCodePropagation ==
    (pc = "done" /\ ReachedExecution /\ AllNodeIdsExist) =>
        /\ Len(results) <= Len(Flat)
        /\ \A i \in 1..Len(results) :
              /\ results[i].node = Flat[i].node
              /\ results[i].op = Flat[i].op
              /\ (results[i].code # 0 /\ \A j \in 1..(i - 1) : results[j].code = 0)
                    => ret = results[i].code
        /\ (Len(results) = Len(Flat) /\ \A i \in 1..Len(results) : results[i].code = 0)
              => ret = 0
        /\ raised.type = "none" =>
              \/ \E i \in 1..Len(results) : results[i].code # 0
              \/ Len(results) = Len(Flat)

C1_Witness ==
    /\ pc = "done" /\ ReachedExecution /\ AllNodeIdsExist
    /\ Len(Nodes) = 2
    /\ Len(results) = 3
    /\ results[1].code = 0 /\ results[2].code = 0
    /\ results[3].node = "n2"
    /\ results[3].code = 2
    /\ ret = 2

\* C2: fail-fast: once some execute_operator has returned a nonzero code, no
\* operator process is spawned any more.
C2_FailFast ==
    [][(\E i \in 1..Len(results) : results[i].code # 0) => spawned' = spawned]_vars

C2_Witness ==
    /\ pc = "done"
    /\ Len(results) = 1
    /\ results[1].code # 0
    /\ Len(Nodes) = 2
    /\ Len(Nodes[1].operator_ids) = 2
    /\ Len(Nodes[2].operator_ids) = 2
    /\ Len(spawned) = 1

IsMissing(i, j) ==
    /\ i \in 1..NOps
    /\ j \in 1..Len(Ops[i].upstream_dependencies)
    /\ Ops[i].upstream_dependencies[j] \notin ConfiguredIds

MissingPairs == {p \in (1..NOps) \X (1..MaxDeps + 1) : IsMissing(p[1], p[2])}

\* C3: a declared upstream id that no operator has makes validate_dependencies
\* raise DependencyMissingError naming the first such pair (operator order,
\* then dependency order); run() then clones nothing, installs nothing, spawns
\* nothing, and leaves every code_path and the env_cache as they were.
C3_MissingDependency ==
    /\ (MissingPairs # {} /\ pc # "validate") =>
          (pc = "done" /\ raised.type = "DependencyMissingError")
    /\ raised.type = "DependencyMissingError" =>
          /\ \E p \in MissingPairs :
                /\ \A q \in MissingPairs :
                      p[1] < q[1] \/ (p[1] = q[1] /\ p[2] <= q[2])
                /\ raised.operator = Ops[p[1]].operator_id
                /\ raised.dep = Ops[p[1]].upstream_dependencies[p[2]]
          /\ clone_calls = 0
          /\ subprocs = 0
          /\ downloads = 0
          /\ \A k \in EnvKeys : install_calls[k] = 0
          /\ spawned = <<>>
          /\ \A k \in 1..NOps : code_path[k] = ""
          /\ env_cache = <<>>

C3_Witness ==
    /\ pc = "done"
    /\ raised.type = "DependencyMissingError"
    /\ raised.operator = "b"
    /\ raised.dep = "y"
    /\ Ops[1].upstream_dependencies = <<"a">>
    /\ Ops[2].upstream_dependencies = <<"y", "x">>

\* C4: when a poll finds the process running with elapsed > timeout, SIGTERM
\* is sent at that poll; kill() is sent only after the 5-second grace wait and
\* only to a process still alive then; and the call returns 4, whatever exit
\* status the process ends with.
C4_TimeoutEscalation ==
    /\ [](/\ timed_out => sigterm_at # NoValue
          /\ kill_at # NoValue =>
                (sigterm_at # NoValue /\ kill_at >= sigterm_at + GracePeriod)
          /\ (timed_out /\ epc = "idle") =>
                (Len(results) > 0 /\ LastResult.code = TimeoutCode))
    /\ [][/\ (epc = "poll" /\ epc' # "poll" /\ proc.alive
                /\ elapsed > Ops[cur].timeout)
              => (sigterm_at' = elapsed /\ kill_at' = NoValue /\ epc' = "grace")
          /\ (kill_at' # NoValue /\ kill_at = NoValue)
              => (proc.alive /\ epc = "grace")]_vars

C4_Witness ==
    /\ timed_out
    /\ epc = "idle"
    /\ kill_at = NoValue
    /\ proc.code = 2
    /\ LastResult.code = TimeoutCode

\* C5: a process still running when its deadline passes is signalled and
\* execute_operator returns 4 within GracePeriod + MonitorInterval of the
\* deadline: no call is still waiting on a running process later than that.
C5_TimeoutResponse ==
    (pc = "exec" /\ epc # "idle" /\ proc.alive) =>
        elapsed <= Ops[cur].timeout + GracePeriod + MonitorInterval

\* a silent process keeps readline() blocked past the response bound, unsignalled
C5_Witness ==
    /\ epc = "readline"
    /\ proc.alive
    /\ written = 0
    /\ sigterm_at = NoValue
    /\ elapsed > Ops[cur].timeout + GracePeriod + MonitorInterval

\* C6: no SIGTERM, no kill and no return through the timeout branch while the
\* elapsed time is at most operator.timeout.
C6_NoEarlyCancellation ==
    /\ sigterm_at # NoValue => sigterm_at > Ops[cur].timeout
    /\ kill_at # NoValue => kill_at > Ops[cur].timeout
    /\ timed_out => elapsed > Ops[cur].timeout
    /\ (cur # 0 /\ elapsed <= Ops[cur].timeout) =>
          (sigterm_at = NoValue /\ kill_at = NoValue /\ ~timed_out)

C6_Witness ==
    /\ epc = "poll"
    /\ proc.alive
    /\ elapsed = Ops[cur].timeout
    /\ elapsed > 0
    /\ sigterm_at = NoValue

\* C7: once setup_virtual_env has returned normally for an environment key,
\* a later setup_virtual_env call for an operator with that key calls
\* install_env zero times and runs no install subprocess.
C7_ProvisioningCache ==
    [][(pc = "setup" /\ idx <= NOps /\ EnvKey(Ops[idx]) \in provisioned)
          => (/\ install_calls' = install_calls
              /\ subprocs' = subprocs
              /\ downloads' = downloads)]_vars

C7_Witness ==
    /\ pc = "setup"
    /\ NOps = 2
    /\ idx = 3
    /\ EnvKey(Ops[1]) = EnvKey(Ops[2])
    /\ Ops[1].env_type = "PixiVirtualEnvConfig"
    /\ install_calls[EnvKey(Ops[1])] = 1

CalledPath == FullEnvPath(Ops[called'.op])

\* C8 (as stated): install_env() called when env_root_path/env_name already
\* exists runs no subprocess and downloads nothing.
C8_InstallEnvSkipsExisting ==
    [][(/\ api_calls' = api_calls + 1
        /\ called'.method = "install_env"
        /\ env_root_path[called'.op]
        /\ CalledPath \in disk_envs)
          => (subprocs' = subprocs /\ downloads' = downloads)]_vars

\* C8 (amended): the path-existence check is made by setup_virtual_env, for
\* each of the three variants: when env_root_path/env_name already exists,
\* setup_virtual_env does not call install_env, runs no subprocess and
\* downloads nothing.  install_env itself makes no such check: the UV variant
\* called directly runs its subprocesses whether the path exists or not.
C8_SetupSkipsExisting ==
    [][/\ (/\ api_calls' = api_calls + 1
           /\ called'.method = "setup_virtual_env"
           /\ CalledPath \in disk_envs)
          => (/\ install_calls' = install_calls
              /\ subprocs' = subprocs
              /\ downloads' = downloads
              /\ disk_envs' = disk_envs)
       /\ (/\ api_calls' = api_calls + 1
           /\ called'.method = "install_env"
           /\ env_root_path[called'.op]
           /\ Ops[called'.op].env_type = "UVVirtualEnvConfig")
          => subprocs' > subprocs]_vars

C8_Witness ==
    /\ pc = "api"
    /\ called.method = "setup_virtual_env"
    /\ raised = NoError
    /\ FullEnvPath(Ops[called.op]) \in disk_envs
    /\ EnvKey(Ops[called.op]) \in provisioned
    /\ install_calls[EnvKey(Ops[called.op])] = 0
    /\ subprocs = 0

\* C9: an install subprocess that exits nonzero raises EnvInstallError, the
\* operator is never spawned, and run() returns 5.
C9_InstallFailureCode ==
    (pc = "done" /\ install_failed) =>
        /\ raised.type = "EnvInstallError"
        /\ spawned = <<>>
        /\ ret = EnvErrorCode

\* a failed install subprocess ends run() with the code of its generic handler
C9_Witness ==
    /\ pc = "done"
    /\ install_failed
    /\ raised.type = "EnvInstallError"
    /\ spawned = <<>>
    /\ ret = LogicErrorCode

\* C10: when validation fails with DependencyMissingError, run() returns 1.
C10_MissingDependencyCode ==
    (pc = "done" /\ raised.type = "DependencyMissingError") => ret = ConfigErrorCode

\* a missing dependency ends run() with the code of its generic handler
C10_Witness ==
    /\ pc = "done"
    /\ raised.type = "DependencyMissingError"
    /\ raised.dep = "x"
    /\ ret = LogicErrorCode

\* C11: execute_operator called for an operator whose code_path is unset
\* returns 1 at once and does not spawn the operator's command.
C11_UnsetCodePath ==
    [][(/\ api_calls' = api_calls + 1
        /\ called'.method = "execute_operator"
        /\ code_path[called'.op] = "")
          => (/\ spawned' = spawned
              /\ epc' = "idle"
              /\ raised' = NoError
              /\ Len(results') = Len(results) + 1
              /\ results'[Len(results')].code = ConfigErrorCode)]_vars

\* a prepared but never cloned operator: Popen is attempted with cwd "None"
\* and its failure comes back as 3
C11_Witness ==
    /\ pc = "call"
    /\ called.method = "execute_operator"
    /\ code_path[called.op] = ""
    /\ env_root_path[called.op]
    /\ epc = "idle"
    /\ spawned = <<>>
    /\ Len(results) = 1
    /\ results[1].code = LogicErrorCode

\* C12: execute_operator never raises: a failure that is neither a timeout
\* nor the process's exit status, the failure of activate_env included, comes
\* back as the integer 3.
C12_ExecuteNeverRaises ==
    /\ raised.type # "ValueError"
    /\ (pc = "done" /\ ReachedExecution /\ ret = LogicErrorCode /\ AllNodeIdsExist)
          => (Len(results) > 0 /\ LastResult.code = LogicErrorCode)

\* the second operator of an environment key reaches execute_operator without
\* an injected env root, and the ValueError of activate_env leaves the call
C12_Witness ==
    /\ pc = "done"
    /\ raised.type = "ValueError"
    /\ NOps = 2
    /\ EnvKey(Ops[1]) = EnvKey(Ops[2])
    /\ Len(results) = 1
    /\ results[1].code = 0
    /\ ret = LogicErrorCode

IdentityKeys == {"PIPELINE_ID", "NODE_ID", "OPERATOR_ID", "WORK_DIR"}

ActivationKeys ==
    {"PATH", "VIRTUAL_ENV", "UV_ENV_ACTIVATED", "PIXI_ENV_ACTIVATED",
     "CONDA_ENV_ACTIVATED", "CONDA_DEFAULT_ENV", "CONDA_PREFIX", "CONDA_SHLVL"}

PathRootKeys == {"INPUT_ROOT", "OUTPUT_ROOT", "WORKSPACE_ROOT"}

AllKeys == IdentityKeys \cup ActivationKeys \cup PathRootKeys \cup ExtraKeys \cup {"HOME"}

LastSpawn == spawned[Len(spawned)]

\* the identity values of the operator and node being executed
IdentityValue(K) ==
    CASE K = "PIPELINE_ID" -> <<PipelineId>>
      [] K = "NODE_ID" -> <<LastSpawn.node>>
      [] K = "OPERATOR_ID" -> <<LastSpawn.op>>
      [] K = "WORK_DIR" -> <<WorkDir>>

\* C13: for every name K, the environment of the spawned process holds the
\* identity value when K is an identity variable (pipeline, node, operator
\* id, the path roots), whatever extra_env_vars contains; otherwise
\* extra_env_vars[K] when present, otherwise activate_env()[K] when present,
\* otherwise os.environ[K], and no K otherwise.
C13_EnvPrecedence ==
    epc # "idle" =>
        \A K \in AllKeys :
            IF K \in IdentityKeys
            THEN K \in DOMAIN penv /\ penv[K] = IdentityValue(K)
            ELSE IF K \in PathRootKeys
            THEN /\ K \in DOMAIN penv
                 /\ K \in DOMAIN Ops[cur].extra_env_vars
                       => penv[K] # Ops[cur].extra_env_vars[K]
            ELSE IF K \in DOMAIN Ops[cur].extra_env_vars
            THEN K \in DOMAIN penv /\ penv[K] = Ops[cur].extra_env_vars[K]
            ELSE IF K \in DOMAIN ActivateEnv(Ops[cur])
            THEN K \in DOMAIN penv /\ penv[K] = ActivateEnv(Ops[cur])[K]
            ELSE IF K \in DOMAIN os_environ
            THEN K \in DOMAIN penv /\ penv[K] = os_environ[K]
            ELSE K \notin DOMAIN penv

\* the four variables execute_operator sets win over extra_env_vars, and a
\* path root reaches the process with the value extra_env_vars gives it
C13_Witness ==
    /\ epc = "poll"
    /\ DOMAIN Ops[cur].extra_env_vars = {"NODE_ID", "PATH", "INPUT_ROOT"}
    /\ "PATH" \in DOMAIN os_environ
    /\ "NODE_ID" \in DOMAIN os_environ
    /\ penv["NODE_ID"] = <<"n1">>
    /\ penv["PATH"] = <<"extra">>
    /\ penv["FOO"] = <<"base">>
    /\ penv["VIRTUAL_ENV"] = <<"a">>
    /\ penv["INPUT_ROOT"] = <<"extra">>

\* C14: the environment of every spawned operator process contains
\* PIPELINE_ID, NODE_ID, OPERATOR_ID, INPUT_ROOT, OUTPUT_ROOT and
\* WORKSPACE_ROOT.
C14_EnvContract ==
    epc # "idle" =>
        ({"PIPELINE_ID", "NODE_ID", "OPERATOR_ID"} \cup PathRootKeys) \subseteq DOMAIN penv

\* a process spawned with the four standard variables and no path root
C14_Witness ==
    /\ epc = "poll"
    /\ proc.alive
    /\ IdentityKeys \subseteq DOMAIN penv
    /\ PathRootKeys \cap DOMAIN penv = {}

ListedBeforeUpstream(i, j) ==
    /\ i < j
    /\ \E k \in 1..NOps :
          /\ Ops[k].operator_id = Flat[i].op
          /\ \E d \in 1..Len(Ops[k].upstream_dependencies) :
                Ops[k].upstream_dependencies[d] = Flat[j].op

\* C18: the operators run() has started are a prefix of the configured order
\* (config.nodes order, then operator_ids order), whatever upstream_dependencies
\* declare; an operator listed before its upstream is started before it.
C18_ConfiguredOrder ==
    /\ Len(spawned) <= Len(Flat)
    /\ \A i \in 1..Len(spawned) : spawned[i] = Flat[i]

\* "a" declares "b" as upstream, is listed first, and was started first
C18_Witness ==
    /\ Len(Flat) = 2
    /\ ListedBeforeUpstream(1, 2)
    /\ Len(spawned) = 2
    /\ spawned[1] = Flat[1]
    /\ spawned[2] = Flat[2]
    /\ spawned[1].op # spawned[2].op

\* two operators declare each other as upstream
HasCycle ==
    \E k, l \in 1..NOps :
        /\ k # l
        /\ \E d \in 1..Len(Ops[k].upstream_dependencies) :
              Ops[k].upstream_dependencies[d] = Ops[l].operator_id
        /\ \E d \in 1..Len(Ops[l].upstream_dependencies) :
              Ops[l].upstream_dependencies[d] = Ops[k].operator_id

\* C19: validate_dependencies returns normally exactly when every declared
\* upstream id is the id of a configured operator, self-dependencies and
\* cycles included, and raises DependencyMissingError exactly when one is not.
C19_ExistenceOnly ==
    [][(pc = "validate" /\ pc' # "validate") =>
          IF MissingPairs = {}
          THEN pc' = "clone" /\ raised' = NoError
          ELSE pc' = "done" /\ raised'.type = "DependencyMissingError"]_vars

\* validation passed for two operators that declare each other as upstream
C19_Witness ==
    /\ HasCycle
    /\ MissingPairs = {}
    /\ pc = "clone"
    /\ raised = NoError

\* the ids of the operators in scope: the target operator when given,
\* otherwise the operators of the target node when given, otherwise all
TargetNodes == {i \in 1..Len(Nodes) : Nodes[i].node_id = cli.node}

Scope ==
    IF cli.operator # "" THEN <<cli.operator>>
    ELSE IF cli.node # "" /\ TargetNodes # {}
    THEN Nodes[CHOOSE i \in TargetNodes : TRUE].operator_ids
    ELSE [i \in 1..Len(Flat) |-> Flat[i].op]

\* C17: run accepts the optional target operator and target node, and the
\* operators it executes are those of the resolved scope, in order: once the
\* command has called run, the call was accepted and what was spawned is a
\* prefix of the scope, all of it when run returned 0.
C17_ScopeResolution ==
    runs > 0 =>
        /\ raised.type # "TypeError"
        /\ Len(spawned) <= Len(Scope)
        /\ \A i \in 1..Len(spawned) : spawned[i].op = Scope[i]
        /\ ret = 0 => Len(spawned) = Len(Scope)

\* run --skip-init --operator a on a pipeline that has operator a
C17_Witness ==
    /\ cli.skip_init
    /\ cli.operator = "a"
    /\ NOps >= 1
    /\ Scope = <<"a">>
    /\ runs = 1
    /\ pc = "done"
    /\ cli.exit = CliErrorExit
    /\ spawned = <<>>

SetupRaised ==
    /\ api_calls' = api_calls + 1
    /\ called'.method = "setup_virtual_env"
    /\ raised'.type # "none"

\* C21: the keys of env_cache are exactly the keys for which a
\* setup_virtual_env call has returned normally; a call that raises leaves
\* env_cache as it was; an entry is never removed and never changes its value.
C21_CacheAppendOnly ==
    [][/\ DOMAIN env_cache' = provisioned'
       /\ \A key \in DOMAIN env_cache :
             key \in DOMAIN env_cache' /\ env_cache'[key] = env_cache[key]
       /\ SetupRaised => env_cache' = env_cache]_vars

\* a setup_virtual_env call raised after another had filled the cache
C21_Witness ==
    /\ called.method = "setup_virtual_env"
    /\ raised.type # "none"
    /\ api_calls >= 2
    /\ env_cache # <<>>
    /\ DOMAIN env_cache = provisioned
    /\ EnvKey(Ops[called.op]) \notin DOMAIN env_cache

\* run() is about to provision a Conda environment that is not in the cache
AtCondaSetup ==
    /\ pc = "setup"
    /\ idx <= NOps
    /\ Ops[idx].env_type = "CondaVirtualEnvConfig"
    /\ ~CacheHit(EnvKey(Ops[idx]))

\* C22: with no object-storage client or configuration, setup_virtual_env of
\* a Conda environment returns normally, having downloaded nothing and run no
\* subprocess, and run() goes on to provision the next operator.
C22_SoftDegrade ==
    [][AtCondaSetup =>
          /\ pc' = "setup"
          /\ idx' = idx + 1
          /\ raised' = NoError
          /\ downloads' = downloads
          /\ subprocs' = subprocs]_vars

\* run() ended in the setup of a Conda environment, on AttributeError,
\* with a later operator left unprovisioned
C22_Witness ==
    /\ pc = "done"
    /\ ret = LogicErrorCode
    /\ raised.type = "AttributeError"
    /\ idx < NOps
    /\ Ops[idx].env_type = "CondaVirtualEnvConfig"
    /\ downloads = 0
    /\ spawned = <<>>

\* the orchestrator leaves the top of the loop with the process running and
\* the deadline not passed: the step that takes the resource sample
SamplingStep ==
    /\ InExecute
    /\ epc = "poll"
    /\ proc.alive
    /\ ~Expired(elapsed, Ops[cur].timeout)
    /\ epc' # "poll"

SomethingFailed ==
    \/ raised.type # "none"
    \/ \E i \in 1..Len(results) : results[i].code # 0

\* C24: within one run(), once a clone, an install or an operator command has
\* failed or timed out, no clone, install subprocess, download or operator
\* command is started any more; install_env is called at most once per
\* environment key and each operator occurrence is spawned at most once.
C24_NoRetry ==
    /\ [](/\ \A key \in EnvKeys : install_calls[key] <= 1
          /\ clone_calls <= NOps
          /\ Len(spawned) <= Len(Flat)
          /\ Len(results) <= Len(Flat))
    /\ [][SomethingFailed =>
             UNCHANGED <<clone_calls, install_calls, subprocs, downloads, spawned>>]_vars

\* run() has returned 4 for the first of two operators, timed out and spawned once
C24_Witness ==
    /\ pc = "done"
    /\ ret = TimeoutCode
    /\ Len(Flat) = 2
    /\ Len(spawned) = 1
    /\ Len(results) = 1
    /\ timed_out

\* the class of the last successful registration under id, "None" when none
RECURSIVE LastRegistered(_, _, _)
LastRegistered(log, n, id) ==
    IF n = 0 THEN "None"
    ELSE IF log[n][1] = id THEN log[n][2]
    ELSE LastRegistered(log, n - 1, id)

\* C25: get_operator_class(id) is the class most recently registered under
\* id and None when id was never registered; registering under an id already
\* present succeeds and overwrites; registering something that is not a
\* BasicRunner subclass raises TypeError and leaves the registry as it was.
C25_LastWriteWins ==
    [][/\ \A id \in RegistryIds :
             RegistryGet(registry', id) = LastRegistered(reg_log', Len(reg_log'), id)
       /\ called'.method = "get_operator_class" /\ api_calls' # api_calls =>
             reg_ret'.value = LastRegistered(reg_log, Len(reg_log), reg_ret'.id)
       /\ called'.method = "register_operator" /\ api_calls' # api_calls =>
             \/ raised'.type = "TypeError" /\ registry' = registry
             \/ /\ raised' = NoError
                /\ reg_ret'.value \in RunnerClasses
                /\ RegistryGet(registry', reg_ret'.id) = reg_ret'.value
                /\ \A id \in RegistryIds \ {reg_ret'.id} :
                      RegistryGet(registry', id) = RegistryGet(registry, id)]_vars

\* op1 was registered twice with different classes, then looked up
C25_Witness ==
    /\ reg_log = <<<<"op1", "RunnerA">>, <<"op1", "RunnerB">>>>
    /\ called.method = "get_operator_class"
    /\ reg_ret = [id |-> "op1", value |-> "RunnerB"]
    /\ DOMAIN registry = {"op1"}

\* the step is a construction in which __init__ ran
InitRan == api_calls' # api_calls /\ built'.ran

\* C26 as claimed: __init__ leaves the output root and the workspace root in
\* existence, warns for a missing input root and does not create it.
C26_CreatesOutputAndWorkspace ==
    [][InitRan =>
          /\ {"output_root", "workspace_root"} \subseteq fs'
          /\ "input_root" \notin fs => "input_root" \in built'.warned
          /\ "input_root" \notin fs => "input_root" \notin fs']_vars

\* C26 as amended: __init__ creates the output root if absent; for a missing
\* input root and a missing workspace root it warns; it succeeds, does not
\* create the input root, and the workspace root comes to exist only as the
\* parent of the output root.
C26_CreatesOutputOnly ==
    [][InitRan =>
          /\ raised' = NoError
          /\ "output_root" \in fs'
          /\ built'.warned = {"input_root", "workspace_root"} \ fs
          /\ "input_root" \in fs' <=> "input_root" \in fs
          /\ "workspace_root" \in fs' <=> ("workspace_root" \in fs \/ nested)
          /\ fs \subseteq fs']_vars

\* a construction that found nothing: the output root now exists, the
\* workspace root and the input root do not
C26_Witness ==
    /\ built.ran
    /\ built.warned = {"input_root", "workspace_root"}
    /\ ~nested
    /\ fs = {"output_root"}

IdsDistinct == \A k, l \in 1..NOps : k # l => Ops[k].operator_id # Ops[l].operator_id

\* the orchestrator has begun to clone, provision or execute
WorkBegun == clone_calls > 0 \/ subprocs > 0 \/ spawned # <<>> \/ pc \in {"setup", "exec"}

\* C27: a configuration with a repeated operator id, or with a node listing
\* an id no operator has, is rejected at construction: whenever the
\* orchestrator has begun to clone, provision or execute, the operator ids
\* are pairwise distinct and every node lists only configured operators.
C27_ValidatedAtConstruction ==
    WorkBegun => IdsDistinct /\ AllNodeIdsExist

\* a node lists an id no operator has: run() cloned, provisioned, executed
\* the operators before it and only then returned 1
C27_Witness ==
    /\ ~AllNodeIdsExist
    /\ pc = "done"
    /\ ret = ConfigErrorCode
    /\ clone_calls > 0
    /\ subprocs > 0
    /\ spawned # <<>>

\* operator k has been executed and returned 0
ExecutedOk(k) ==
    \E i \in 1..Len(results) :
        results[i].op = Ops[k].operator_id /\ results[i].code = 0

OrderOf(ty) ==
    CASE ty = "UVVirtualEnvConfig" -> UVOrder
      [] ty = "PixiVirtualEnvConfig" -> PixiOrder
      [] ty = "CondaVirtualEnvConfig" -> CondaOrder
      [] OTHER -> <<>>

\* the steps run that failed
FailedSteps == {n \in 1..Len(inst.steps) : inst.steps[n] \in inst.fails}

C30_StreamTimeoutCode ==
    (stream.pc = "done" /\ stream.timed_out) =>
        /\ stream.sigterm_at # NoValue
        /\ stream.elapsed = stream.sigterm_at + StreamGrace
        /\ stream.kill_at # NoValue => stream.proc.code = SigKillCode
        /\ ~stream.proc.alive
        /\ stream.ret = TimeoutCode
        /\ stream.ret # StreamFailureReturn

\* a call whose process outlived the timeout and the grace period, was
\* killed, and returned
C30_Witness ==
    /\ stream.pc = "done"
    /\ stream.timed_out
    /\ stream.elapsed > stream.timeout
    /\ stream.kill_at = stream.sigterm_at + StreamGrace
    /\ stream.proc.code = SigKillCode
    /\ stream.ret = StreamTimeoutReturn

\* C31: the exit check precedes the deadline check.  A poll that finds the
\* process exited returns the process's own exit code and sends no signal,
\* even when the elapsed time exceeds operator.timeout; the timeout path is
\* entered only by a poll that finds the process running after the deadline.
C31_ExitBeforeDeadline ==
    [][(InExecute /\ epc = "poll" /\ epc' # "poll") =>
          /\ ~proc.alive =>
                /\ epc' = "idle"
                /\ Len(results') = Len(results) + 1
                /\ results'[Len(results')].code = proc.code
                /\ sigterm_at' = NoValue
                /\ kill_at' = NoValue
                /\ ~timed_out'
          /\ (timed_out' \/ epc' = "grace") =>
                (proc.alive /\ elapsed > Ops[cur].timeout)]_vars

\* a process that exited after its deadline, before the next poll: the call
\* returned its exit code, unsignalled
C31_Witness ==
    /\ epc = "idle"
    /\ cur # 0
    /\ elapsed > Ops[cur].timeout
    /\ ~proc.alive
    /\ proc.code = 2
    /\ Len(results) > 0
    /\ LastResult.code = 2
    /\ ~timed_out
    /\ sigterm_at = NoValue

\* C32: no operator process outlives its invocation: whenever execute_operator
\* has returned, with the process's code, with 4 or with 3, the process it
\* spawned has exited or has been sent kill().
C32_NoProcessOutlivesCall ==
    (epc = "idle" /\ cur # 0 /\ Len(results) > 0) =>
        (~proc.alive \/ kill_at # NoValue)

\* execute_operator returned 3 from a failed read while the process, never
\* signalled, is still running
C32_Witness ==
    /\ epc = "idle"
    /\ Len(results) = 1
    /\ results[1].code = LogicErrorCode
    /\ Len(spawned) = 1
    /\ proc.alive
    /\ sigterm_at = NoValue
    /\ kill_at = NoValue

\* C33: when setup_virtual_env(operator) returns normally during run(), by a
\* fresh install, by finding the path on disk or by a cache hit, the
\* operator's env_config has its env root injected, so get_full_env_path()
\* succeeds, and the cache holds that path under the operator's key.
C33_EnvRootInjected ==
    [][(pc = "setup" /\ idx <= NOps /\ idx' = idx + 1) =>
          /\ env_root_path'[idx]
          /\ EnvKey(Ops[idx]) \in DOMAIN env_cache'
          /\ env_cache'[EnvKey(Ops[idx])] = FullEnvPath(Ops[idx])]_vars

\* setup_virtual_env returned for a second operator of an environment key by
\* a cache hit, and its own env_config has no env root
C33_Witness ==
    /\ pc = "setup"
    /\ NOps = 2
    /\ idx = 3
    /\ EnvKey(Ops[1]) = EnvKey(Ops[2])
    /\ EnvKey(Ops[2]) \in DOMAIN env_cache
    /\ env_root_path[1]
    /\ ~env_root_path[2]

\* the execution loop of run() stands at an operator id that is not in the
\* operator map
AtMissingId == AtOperator /\ OperatorMap(CurOpId) = 0

\* C34: when run() reaches a node operator id absent from the operator map,
\* every configured operator has been cloned and provisioned and every earlier
\* occurrence in node order has been executed (and returned 0); run() then
\* returns 1 without executing that occurrence, and nothing is executed after
\* run() has returned.
C34_MissingNodeOperator ==
    /\ [](AtMissingId =>
            /\ \A k \in 1..NOps :
                  /\ code_path[k] # ""
                  /\ EnvKey(Ops[k]) \in provisioned
                  /\ EnvKey(Ops[k]) \in DOMAIN env_cache
            /\ Len(spawned) = Len(results)
            /\ Len(results) < Len(Flat)
            /\ \A i \in 1..Len(results) :
                  /\ results[i].op = Flat[i].op
                  /\ results[i].node = Flat[i].node
                  /\ results[i].code = 0
            /\ Flat[Len(results) + 1].op = CurOpId
            /\ Flat[Len(results) + 1].node = CurNode.node_id)
    /\ [][/\ AtMissingId =>
                (pc' = "done" /\ ret' = ConfigErrorCode /\ UNCHANGED <<spawned, results>>)
          /\ pc = "done" => UNCHANGED <<pc, ret, spawned, results>>]_vars

\* run() returned 1 at the second occurrence, the first having been executed,
\* with a third occurrence, of a configured operator, never executed
C34_Witness ==
    /\ pc = "done"
    /\ ret = ConfigErrorCode
    /\ Len(Flat) >= 3
    /\ Flat[2].op \notin ConfiguredIds
    /\ Flat[3].op \in ConfiguredIds
    /\ Len(results) = 1
    /\ results[1].code = 0
    /\ Len(spawned) = 1

\* C35: setup_virtual_env treats an environment as provisioned without
\* installing only when an install for its path ran to completion: a call that
\* finds the directory left by an install_env that failed partway, with no
\* cache entry for the key, calls install_env again.
C35_ReinstallAfterPartial ==
    [][(/\ api_calls' = api_calls + 1
        /\ called'.method = "setup_virtual_env"
        /\ EnvKey(Ops[called'.op]) \notin DOMAIN env_cache
        /\ ~S3ConfigReadRaises(Ops[called'.op].env_type)
        /\ CalledPath \in broken_envs)
          => install_calls'[EnvKey(Ops[called'.op])]
                = install_calls[EnvKey(Ops[called'.op])] + 1]_vars

\* an environment whose only install failed after creating the directory is
\* in the cache, provisioned without a second install
C35_Witness ==
    /\ called.method = "setup_virtual_env"
    /\ raised = NoError
    /\ EnvKey(Ops[called.op]) \in DOMAIN env_cache
    /\ FullEnvPath(Ops[called.op]) \in broken_envs
    /\ install_calls[EnvKey(Ops[called.op])] = 1
    /\ install_failed

\* C36: if every operator process eventually exits on its own, every
\* execute_operator call eventually returns and run() eventually returns an
\* exit code, whatever the process writes and whenever the pipe is full.
C36_Termination ==
    /\ (epc # "idle") ~> (epc = "idle")
    /\ <>(pc = "done" /\ ret # NoValue)

\* the operator process is blocked writing to a full pipe while the
\* orchestrator is between two polls
C36_Witness ==
    /\ pc = "exec"
    /\ epc = "poll"
    /\ Blocked
    /\ elapsed >= MonitorInterval
    /\ sigterm_at = NoValue

\* a construction of a BasicRunner subclass is made in this step
Constructed == api_calls' # api_calls /\ called'.method = "BasicRunner"

\* the objects created so far for the class and operator id of the call
MadeFor(cls, id) ==
    {k \in DOMAIN instances :
        instances[k].cls = cls /\ instances[k].operator_id = id}

============================================================================
